---- MODULE Spec2Model ----
(***************************************************************************)
(* Operator appliers of graphblas_sparse_linear_algebra: element-wise      *)
(* addition and multiplication, matrix-matrix and matrix-vector            *)
(* multiplication, column extraction and the unary map.  Each applier      *)
(* binds {operator, accumulator, options} and issues one engine call per   *)
(* apply; the engine computes a result T and writes it into the output     *)
(* through the accumulator and the mask.                                   *)
(***************************************************************************)
EXTENDS Integers, Sequences, FiniteSets, TLC

VARIABLES
    family,        \* which applier the driver exercises in this run
    multiplier,    \* first operand (the argument of the unary map, the source of an extraction)
    multiplicant,  \* second operand
    mask,          \* the collection handed over as explicit mask
    options,       \* the OperatorOptions shared by the appliers of the run
    selection,     \* column extraction: the row selector and the column index
    failing,       \* column extraction: the conversions that fail for these inputs
    product,       \* the output collection, borrowed mutably by each apply
    previous,      \* history: the output as it was before the latest apply
    computed,      \* history: the result T the engine computed in the latest apply
    last,          \* history: the latest call (method, applier, returned Result)
    penultimate,   \* history: the call before the latest
    calls,         \* number of applies made so far
    engine,        \* the engine the Context initialised: mode, memory, deferred error
    matrices,      \* parallel test: the operands, one per thread
    result_matrix, \* parallel test: the Mutex around the shared output
    pc,            \* parallel test: where each thread is in its closure
    element_wise_matrix_add_operator, \* parallel test: the applier all threads share
    constructed    \* history: the applier as its constructor returned it

parallel == <<matrices, result_matrix, pc, element_wise_matrix_add_operator, constructed>>

vars == <<calls, engine, family, multiplier, multiplicant, mask, options, selection, failing,
          product, previous, computed, last, penultimate,
          matrices, result_matrix, pc, element_wise_matrix_add_operator, constructed>>

inputs == <<family, multiplier, multiplicant, mask, options, selection, failing>>

(***************************************************************************)
(* Bounds of the model.                                                    *)
(***************************************************************************)
MaxCalls == 2
MaxSelectorLength == 2

(***************************************************************************)
(* Sparse collections: a size and a partial map from coordinates to        *)
(* values.  The stored coordinates are the domain of the map.  A vector    *)
(* has size <<n>> and coordinates <<i>>, a matrix has size                 *)
(* <<height, width>> and coordinates <<row, column>>.                      *)
(***************************************************************************)
Coordinates(size) ==
    IF Len(size) = 1
    THEN {<<i>> : i \in 0..(size[1] - 1)}
    ELSE {<<i, j>> : i \in 0..(size[1] - 1), j \in 0..(size[2] - 1)}

Restrict(elements, S) == [c \in S |-> elements[c]]

ElementMaps(size, values) == UNION {[S -> values] : S \in SUBSET Coordinates(size)}

SparseCollections(size, values) ==
    {[size |-> size, elements |-> f] : f \in ElementMaps(size, values)}

SubCollections(collection) ==
    {[size |-> collection.size, elements |-> Restrict(collection.elements, S)] :
        S \in SUBSET DOMAIN collection.elements}

EmptyCollection(size) == [size |-> size, elements |-> [c \in {} |-> 0]]

SparseVector_from_element_list(values) ==
    [size |-> <<Len(values)>>,
     elements |-> [c \in Coordinates(<<Len(values)>>) |-> values[c[1] + 1]]]

SparseMatrix_from_element_list(rows) ==
    [size |-> <<Len(rows), Len(rows[1])>>,
     elements |-> [c \in Coordinates(<<Len(rows), Len(rows[1])>>) |-> rows[c[1] + 1][c[2] + 1]]]

Stored(collection) == DOMAIN collection.elements

number_of_stored_elements(collection) == Cardinality(DOMAIN collection.elements)

NullPointer == [null |-> TRUE]

(***************************************************************************)
(* Algebraic operators and accumulators.                                   *)
(***************************************************************************)
BinaryOperators == {"Times", "First"}

Accumulators == {"Assignment", "Plus", "First"}

UnaryOperators == {"Identity", "One", "LogicalNegation"}

PlusTimes == [add |-> "Plus", multiply |-> "Times"]

EvaluateBinaryOperator(operator, x, y) ==
    CASE operator = "Plus" -> x + y
      [] operator = "Times" -> x * y
      [] operator = "First" -> x

EvaluateUnaryOperator(operator, x) ==
    CASE operator = "Identity" -> x
      [] operator = "One" -> 1
      [] operator = "LogicalNegation" -> IF x = 0 THEN 1 ELSE 0

AsBoolean(value) == value # 0

(***************************************************************************)
(* Value types.  A collection that declares its value type stores values   *)
(* of that width; the other collections of the model hold small values of  *)
(* a type wide enough for every result.                                    *)
(***************************************************************************)
Typed(collection, value_type) ==
    [size |-> collection.size, elements |-> collection.elements, value_type |-> value_type]

IsTyped(collection) == "value_type" \in DOMAIN collection

\* the integer cast of the engine: the value modulo 2^width
CastTo(value_type, value) ==
    CASE value_type = "u8" -> value % (2 ^ 8)
      [] value_type = "u16" -> value % (2 ^ 16)

StoredAs(collection, value) ==
    IF IsTyped(collection) THEN CastTo(collection.value_type, value) ELSE value

(***************************************************************************)
(* Operator options and the descriptor they compile to.                    *)
(***************************************************************************)
OperatorOptions_new(replace, structural, complement, transpose_first, transpose_second) ==
    [replace |-> replace, structural |-> structural, complement |-> complement,
     transpose_first |-> transpose_first, transpose_second |-> transpose_second]

OperatorOptions_new_default == OperatorOptions_new(FALSE, FALSE, FALSE, FALSE, FALSE)

MaskOptions ==
    {OperatorOptions_new(r, s, c, FALSE, FALSE) : r \in BOOLEAN, s \in BOOLEAN, c \in BOOLEAN}

TransposeOptions ==
    {OperatorOptions_new(FALSE, FALSE, FALSE, f, s) : f \in BOOLEAN, s \in BOOLEAN}

(***************************************************************************)
(* The engine's write step, shared by every operation:                     *)
(* Z = accum(C, T), then C<Mask> = Z under the descriptor.                 *)
(***************************************************************************)
MaskSelects(Mask, descriptor, c) ==
    LET selected == IF Mask = NullPointer
                    THEN TRUE
                    ELSE /\ c \in DOMAIN Mask.elements
                         /\ (descriptor.structural \/ AsBoolean(Mask.elements[c]))
    IN  IF descriptor.complement THEN ~selected ELSE selected

Accumulate(accum, C, T) ==
    IF accum = "Assignment"
    THEN T
    ELSE [c \in (DOMAIN C) \cup (DOMAIN T) |->
            IF c \in DOMAIN C /\ c \in DOMAIN T
            THEN EvaluateBinaryOperator(accum, C[c], T[c])
            ELSE IF c \in DOMAIN C THEN C[c] ELSE T[c]]

WriteThroughMask(C, Mask, accum, T, descriptor) ==
    LET Z == Accumulate(accum, C.elements, T)
        written == {c \in DOMAIN Z : MaskSelects(Mask, descriptor, c)}
        kept == {c \in DOMAIN C.elements :
                    ~MaskSelects(Mask, descriptor, c) /\ ~descriptor.replace}
    IN  [C EXCEPT !.elements =
            [c \in written \cup kept |->
                IF c \in written THEN StoredAs(C, Z[c]) ELSE C.elements[c]]]

MaskFits(C, Mask) == Mask = NullPointer \/ Mask.size = C.size

\* A violated precondition is reported by the call itself, in either mode;
\* the output is not touched and an error deferred earlier stays deferred.
EngineFailure(C, info) ==
    [info |-> info, C |-> C, T |-> [c \in {} |-> 0], pending |-> engine.pending]

\* What an execution error leaves in the output is the engine's choice.
LeftByFailedExecution(C) ==
    IF engine.leaves = "cleared" THEN [C EXCEPT !.elements = [c \in {} |-> 0]] ELSE C

ExecutionFailure(C, info) ==
    [info |-> info, C |-> LeftByFailedExecution(C), T |-> [c \in {} |-> 0], pending |-> "none"]

\* Non-blocking mode lets the engine return before the work is done and
\* report its error at a later call.
Deferred(C, T, info) ==
    [info |-> "GrB_SUCCESS", C |-> C, T |-> T, pending |-> info]

\* The execution of a call whose preconditions hold.  A call first completes
\* the work deferred on its output, and reports the error of that work.
EngineSuccess(C, Mask, accum, T, descriptor) ==
    IF engine.pending # "none"
    THEN ExecutionFailure(C, engine.pending)
    ELSE IF engine.fault # "none"
    THEN IF engine.mode = "NonBlocking" /\ engine.defers
         THEN Deferred(C, T, engine.fault)
         ELSE ExecutionFailure(C, engine.fault)
    ELSE [info |-> "GrB_SUCCESS", C |-> WriteThroughMask(C, Mask, accum, T, descriptor),
          T |-> T, pending |-> "none"]

(***************************************************************************)
(* Element-wise operations in the engine.                                  *)
(***************************************************************************)
ElementWiseAdd(operator, u, v) ==
    [c \in (DOMAIN u) \cup (DOMAIN v) |->
        IF c \in DOMAIN u /\ c \in DOMAIN v
        THEN EvaluateBinaryOperator(operator, u[c], v[c])
        ELSE IF c \in DOMAIN u THEN u[c] ELSE v[c]]

ElementWiseMult(operator, u, v) ==
    [c \in (DOMAIN u) \cap (DOMAIN v) |-> EvaluateBinaryOperator(operator, u[c], v[c])]

GrB_Vector_eWiseAdd_BinaryOp(w, Mask, accum, operator, u, v, descriptor) ==
    IF ~MaskFits(w, Mask) \/ u.size # w.size \/ v.size # w.size
    THEN EngineFailure(w, "GrB_DIMENSION_MISMATCH")
    ELSE EngineSuccess(w, Mask, accum, ElementWiseAdd(operator, u.elements, v.elements), descriptor)

GrB_Matrix_eWiseMult_BinaryOp(C, Mask, accum, operator, A, B, descriptor) ==
    IF ~MaskFits(C, Mask) \/ A.size # C.size \/ B.size # C.size
    THEN EngineFailure(C, "GrB_DIMENSION_MISMATCH")
    ELSE EngineSuccess(C, Mask, accum, ElementWiseMult(operator, A.elements, B.elements), descriptor)

(***************************************************************************)
(* Multiplication over a semiring in the engine.                           *)
(***************************************************************************)
Transpose(A) ==
    [size |-> <<A.size[2], A.size[1]>>,
     elements |-> [c \in {<<x[2], x[1]>> : x \in DOMAIN A.elements} |-> A.elements[<<c[2], c[1]>>]]]

RECURSIVE ReduceMonoid(_, _)
ReduceMonoid(add, terms) ==
    IF Len(terms) = 1
    THEN terms[1]
    ELSE EvaluateBinaryOperator(add, terms[1], ReduceMonoid(add, Tail(terms)))

\* the k for which both A[i, k] and B[k, j] are stored, in ascending order
CommonIndices(A, B, i, j) ==
    SelectSeq([n \in 1..A.size[2] |-> n - 1],
              LAMBDA k : <<i, k>> \in DOMAIN A.elements /\ <<k, j>> \in DOMAIN B.elements)

SemiringProduct(semiring, A, B) ==
    [c \in {x \in Coordinates(<<A.size[1], B.size[2]>>) : CommonIndices(A, B, x[1], x[2]) # <<>>} |->
        LET ks == CommonIndices(A, B, c[1], c[2])
        IN  ReduceMonoid(semiring.add,
                [n \in 1..Len(ks) |->
                    EvaluateBinaryOperator(semiring.multiply,
                        A.elements[<<c[1], ks[n]>>], B.elements[<<ks[n], c[2]>>])])]

GrB_mxm(C, Mask, accum, semiring, A, B, descriptor) ==
    LET first == IF descriptor.transpose_first THEN Transpose(A) ELSE A
        second == IF descriptor.transpose_second THEN Transpose(B) ELSE B
    IN  IF \/ ~MaskFits(C, Mask)
           \/ first.size[2] # second.size[1]
           \/ C.size # <<first.size[1], second.size[2]>>
        THEN EngineFailure(C, "GrB_DIMENSION_MISMATCH")
        ELSE EngineSuccess(C, Mask, accum, SemiringProduct(semiring, first, second), descriptor)

AsColumn(u) ==
    [size |-> <<u.size[1], 1>>,
     elements |-> [c \in {<<x[1], 0>> : x \in DOMAIN u.elements} |-> u.elements[<<c[1]>>]]]

AsVectorElements(elements) ==
    [c \in {<<x[1]>> : x \in DOMAIN elements} |-> elements[<<c[1], 0>>]]

GrB_mxv(w, Mask, accum, semiring, A, u, descriptor) ==
    LET first == IF descriptor.transpose_first THEN Transpose(A) ELSE A
    IN  IF \/ ~MaskFits(w, Mask)
           \/ first.size[2] # u.size[1]
           \/ w.size # <<first.size[1]>>
        THEN EngineFailure(w, "GrB_DIMENSION_MISMATCH")
        ELSE EngineSuccess(w, Mask, accum,
                AsVectorElements(SemiringProduct(semiring, first, AsColumn(u))), descriptor)

(***************************************************************************)
(* The unary map in the engine.                                            *)
(***************************************************************************)
UnaryMap(operator, u) == [c \in DOMAIN u |-> EvaluateUnaryOperator(operator, u[c])]

GrB_Vector_apply(w, Mask, accum, operator, u, descriptor) ==
    IF ~MaskFits(w, Mask) \/ u.size # w.size
    THEN EngineFailure(w, "GrB_DIMENSION_MISMATCH")
    ELSE EngineSuccess(w, Mask, accum, UnaryMap(operator, u.elements), descriptor)

GrB_Matrix_apply(C, Mask, accum, operator, A, descriptor) ==
    IF ~MaskFits(C, Mask) \/ A.size # C.size
    THEN EngineFailure(C, "GrB_DIMENSION_MISMATCH")
    ELSE EngineSuccess(C, Mask, accum, UnaryMap(operator, A.elements), descriptor)

(***************************************************************************)
(* Column extraction in the engine.  The row indices are either the        *)
(* engine's "all" sentinel or an array of number_of_indices indices.       *)
(***************************************************************************)
GrB_ALL == [all |-> TRUE, array |-> <<>>]

IndexArray(indices) == [all |-> FALSE, array |-> indices]

ExtractedRows(A, indices, number_of_indices) ==
    IF indices.all
    THEN [n \in 1..A.size[1] |-> n - 1]
    ELSE SubSeq(indices.array, 1, number_of_indices)

ExtractColumn(A, rows, j) ==
    [c \in {<<n - 1>> : n \in {m \in 1..Len(rows) : <<rows[m], j>> \in DOMAIN A.elements}} |->
        A.elements[<<rows[c[1] + 1], j>>]]

\* The set of results the engine may give.  Neither failure condition is
\* given precedence over the other: when both hold, either status may come
\* back.
GrB_Col_extract(w, Mask, accum, A, indices, number_of_indices, j, descriptor) ==
    LET rows == ExtractedRows(A, indices, number_of_indices)
        failures ==
            (IF \E n \in 1..Len(rows) : rows[n] >= A.size[1]
             THEN {"GrB_INDEX_OUT_OF_BOUNDS"} ELSE {})
            \cup
            (IF ~MaskFits(w, Mask) \/ w.size # <<Len(rows)>>
             THEN {"GrB_DIMENSION_MISMATCH"} ELSE {})
    IN  IF failures # {}
        THEN {EngineFailure(w, info) : info \in failures}
        ELSE {EngineSuccess(w, Mask, accum, ExtractColumn(A, rows, j), descriptor)}

(***************************************************************************)
(* The gateway: Context::call turns the engine's status into a Result.     *)
(***************************************************************************)
ContextCall(info) ==
    CASE info = "GrB_SUCCESS" -> "Ok"
      [] info = "GrB_DIMENSION_MISMATCH" -> "DimensionMismatch"
      [] info = "GrB_INDEX_OUT_OF_BOUNDS" -> "IndexOutOfBounds"
      [] info = "GrB_DOMAIN_MISMATCH" -> "DomainMismatch"
      [] info = "GrB_OUT_OF_MEMORY" -> "OutOfMemory"
      [] OTHER -> "InvalidOrUninitializedHandle"

Outcome(returned) ==
    [result |-> ContextCall(returned.info), product |-> returned.C, computed |-> returned.T,
     status |-> returned.info, left |-> returned.C, pending |-> returned.pending]

\* context.call(|| operation, failed_output): the one engine operation of the
\* closure is executed through the Context that a collection of the call
\* holds, and the handle of failed_output is kept for the diagnostics.
Context_call(context_of, operation, returned, failed_output) ==
    [result |-> Outcome(returned).result, product |-> Outcome(returned).product,
     computed |-> Outcome(returned).computed, status |-> Outcome(returned).status,
     left |-> Outcome(returned).left, pending |-> Outcome(returned).pending,
     context_of |-> context_of, failed_output |-> failed_output, issued |-> <<operation>>]

(***************************************************************************)
(* Collaborators of the appliers: options to descriptor, masks to engine   *)
(* handles, index conversions.                                             *)
(***************************************************************************)
to_graphblas_descriptor(operator_options) == operator_options

SelectEntireVector == [select_entire_vector |-> TRUE]

VectorMask_graphblas_vector(vector_mask) ==
    IF vector_mask = SelectEntireVector THEN NullPointer ELSE vector_mask

ElementIndexSelector_All == [selector |-> "All", indices |-> <<>>]

ElementIndexSelector_Index(indices) == [selector |-> "Index", indices |-> indices]

to_graphblas_index(index) == index

ElementIndexSelector_to_graphblas_type(indices_to_extract) ==
    IF indices_to_extract.selector = "All"
    THEN [selector |-> "All", index |-> GrB_ALL]
    ELSE [selector |-> "Index",
          index |-> IndexArray([n \in 1..Len(indices_to_extract.indices) |->
                        to_graphblas_index(indices_to_extract.indices[n])])]

row_height(matrix) == matrix.size[1]

\* The fallible steps before the engine call of an extraction, in the order
\* of the code; whether one fails is decided by its input, outside the
\* applier, and held in the variable failing.
Conversions ==
    <<"row_height", "number_of_indices_to_extract.to_graphblas_index",
      "indices_to_extract.to_graphblas_type", "column_index_to_extract.to_graphblas_index">>

\* The steps an extraction with this selector goes through: the row count is
\* read for the selector All only.
StepsOf(indices_to_extract) ==
    IF indices_to_extract.selector = "All"
    THEN Conversions
    ELSE SubSeq(Conversions, 2, Len(Conversions))

\* The `?` after each step: the first step that fails, or "none".
FirstFailure(steps) ==
    IF \E n \in 1..Len(steps) : steps[n] \in failing
    THEN steps[CHOOSE n \in 1..Len(steps) :
                /\ steps[n] \in failing
                /\ \A m \in 1..(n - 1) : steps[m] \notin failing]
    ELSE "none"

\* Err(error)? before the gateway was called: nothing was issued, the output
\* and the engine are as they were.
ReturnedEarly(error, output) ==
    [result |-> error, product |-> output, computed |-> [c \in {} |-> 0],
     status |-> "none", left |-> output, pending |-> engine.pending,
     context_of |-> "none", failed_output |-> "none", issued |-> <<>>]

(***************************************************************************)
(* ElementWiseVectorAdditionBinaryOperator.                                *)
(***************************************************************************)
ElementWiseVectorAdditionBinaryOperator_new(multiplication_operator, operator_options, accumulator) ==
    [accumulator |-> accumulator,
     multiplication_operator |-> multiplication_operator,
     options |-> to_graphblas_descriptor(operator_options)]

\* fault: the applier's accumulator is not handed to the engine
ElementWiseVectorAddition_apply_discarding(self, a, b, c) ==
    Context_call("product", [entry_point |-> "GrB_Vector_eWiseAdd_BinaryOp"],
        GrB_Vector_eWiseAdd_BinaryOp(c, NullPointer, "Assignment",
                self.multiplication_operator, a, b, self.options), "product")

\* fault: the multiplier is handed to the engine as the mask, in the place
\* of the null pointer
ElementWiseVectorAddition_apply_masked_by_multiplier(self, a, b, c) ==
    Context_call("product", [entry_point |-> "GrB_Vector_eWiseAdd_BinaryOp"],
        GrB_Vector_eWiseAdd_BinaryOp(c, a, self.accumulator,
                self.multiplication_operator, a, b, self.options), "product")

\* fault: after a failed engine call the applier calls the engine once more
ElementWiseVectorAddition_apply_retrying(self, a, b, c) ==
    LET first ==
            Context_call("product", [entry_point |-> "GrB_Vector_eWiseAdd_BinaryOp"],
                GrB_Vector_eWiseAdd_BinaryOp(c, NullPointer, self.accumulator,
                        self.multiplication_operator, a, b, self.options), "product")
        second ==
            Context_call("product", [entry_point |-> "GrB_Vector_eWiseAdd_BinaryOp"],
                GrB_Vector_eWiseAdd_BinaryOp(first.product, NullPointer, self.accumulator,
                        self.multiplication_operator, a, b, self.options), "product")
    IN  IF first.result = "Ok"
        THEN first
        ELSE [second EXCEPT !.issued = first.issued \o second.issued]

ElementWiseVectorAddition_apply(self, a, b, c) ==
    Context_call("product", [entry_point |-> "GrB_Vector_eWiseAdd_BinaryOp"],
        GrB_Vector_eWiseAdd_BinaryOp(c, NullPointer, self.accumulator,
                self.multiplication_operator, a, b, self.options), "product")

\* fault: the mask is not handed to the engine
ElementWiseVectorAddition_apply_ignoring_mask(self, m, a, b, c) ==
    Context_call("product", [entry_point |-> "GrB_Vector_eWiseAdd_BinaryOp"],
        GrB_Vector_eWiseAdd_BinaryOp(c, NullPointer, self.accumulator,
                self.multiplication_operator, a, b, self.options), "product")

\* fault: the operands are handed to the engine in the wrong order
ElementWiseVectorAddition_apply_with_mask_swapped(self, m, a, b, c) ==
    Context_call("product", [entry_point |-> "GrB_Vector_eWiseAdd_BinaryOp"],
        GrB_Vector_eWiseAdd_BinaryOp(c, m, self.accumulator,
                self.multiplication_operator, b, a, self.options), "product")

\* fault: the mask is handed to the engine in the place of the multiplier
ElementWiseVectorAddition_apply_with_mask_as_multiplier(self, m, a, b, c) ==
    Context_call("product", [entry_point |-> "GrB_Vector_eWiseAdd_BinaryOp"],
        GrB_Vector_eWiseAdd_BinaryOp(c, m, self.accumulator,
                self.multiplication_operator, m, b, self.options), "product")

ElementWiseVectorAddition_apply_with_mask(self, m, a, b, c) ==
    Context_call("product", [entry_point |-> "GrB_Vector_eWiseAdd_BinaryOp"],
        GrB_Vector_eWiseAdd_BinaryOp(c, m, self.accumulator,
                self.multiplication_operator, a, b, self.options), "product")

(***************************************************************************)
(* ElementWiseMatrixMultiplicationBinaryOperator.                          *)
(***************************************************************************)
ElementWiseMatrixMultiplicationBinaryOperator_new(multiplication_operator, operator_options, accumulator) ==
    [accumulator |-> accumulator,
     multiplication_operator |-> multiplication_operator,
     options |-> to_graphblas_descriptor(operator_options)]

\* fault: the operands are handed to the engine in the wrong order
ElementWiseMatrixMultiplication_apply_swapped(self, a, b, c) ==
    Context_call("product", [entry_point |-> "GrB_Matrix_eWiseMult_BinaryOp"],
        GrB_Matrix_eWiseMult_BinaryOp(c, NullPointer, self.accumulator,
                self.multiplication_operator, b, a, self.options), "product")

\* fault: the applier's accumulator is not handed to the engine
ElementWiseMatrixMultiplication_apply_discarding(self, a, b, c) ==
    Context_call("product", [entry_point |-> "GrB_Matrix_eWiseMult_BinaryOp"],
        GrB_Matrix_eWiseMult_BinaryOp(c, NullPointer, "Assignment",
                self.multiplication_operator, a, b, self.options), "product")

\* fault: apply assigns the operator field of its receiver
SharedReference_switching_operator(self) == [self EXCEPT !.multiplication_operator = "First"]

\* fault: apply assigns the accumulator field of its receiver
SharedReference_resetting(self) == [self EXCEPT !.accumulator = "Assignment"]

\* apply and apply_with_mask take their receiver as &self and assign none of
\* its fields: the applier after the call
SharedReference(self) == self

ElementWiseMatrixMultiplication_apply(self, a, b, c) ==
    Context_call("product", [entry_point |-> "GrB_Matrix_eWiseMult_BinaryOp"],
        GrB_Matrix_eWiseMult_BinaryOp(c, NullPointer, self.accumulator,
                self.multiplication_operator, a, b, self.options), "product")

ElementWiseMatrixMultiplication_apply_with_mask(self, m, a, b, c) ==
    Context_call("product", [entry_point |-> "GrB_Matrix_eWiseMult_BinaryOp"],
        GrB_Matrix_eWiseMult_BinaryOp(c, m, self.accumulator,
                self.multiplication_operator, a, b, self.options), "product")

(***************************************************************************)
(* MatrixMultiplicationOperator.                                           *)
(***************************************************************************)
MatrixMultiplicationOperator_new(semiring, operator_options, accumulator) ==
    [accumulator |-> accumulator,
     semiring |-> semiring,
     options |-> to_graphblas_descriptor(operator_options)]

\* fault: multiplier and multiplicant are handed to the engine in the wrong order
MatrixMultiplication_apply_swapped(self, a, b, c) ==
    Context_call("product", [entry_point |-> "GrB_mxm"],
        GrB_mxm(c, NullPointer, self.accumulator, self.semiring, b, a, self.options), "product")

\* fault: the transpose flags of the options do not reach the engine
MatrixMultiplication_apply_untransposed(self, a, b, c) ==
    Context_call("product", [entry_point |-> "GrB_mxm"],
        GrB_mxm(c, NullPointer, self.accumulator, self.semiring, a, b,
                [self.options EXCEPT !.transpose_first = FALSE, !.transpose_second = FALSE]), "product")

\* fault: the status of the engine call is not waited for, Ok is returned
MatrixMultiplication_apply_not_waiting(self, a, b, c) ==
    [Context_call("product", [entry_point |-> "GrB_mxm"],
        GrB_mxm(c, NullPointer, self.accumulator, self.semiring, a, b, self.options), "product")
        EXCEPT !.result = "Ok"]

\* fault: the engine call goes through the Context of the multiplier
MatrixMultiplication_apply_through_multiplier(self, a, b, c) ==
    Context_call("multiplier", [entry_point |-> "GrB_mxm"],
        GrB_mxm(c, NullPointer, self.accumulator, self.semiring, a, b, self.options),
        "product")

MatrixMultiplication_apply(self, a, b, c) ==
    Context_call("product", [entry_point |-> "GrB_mxm"],
        GrB_mxm(c, NullPointer, self.accumulator, self.semiring, a, b, self.options), "product")

\* fault: the complement flag of the options does not reach the engine
MatrixMultiplication_apply_with_mask_uncomplemented(self, m, a, b, c) ==
    Context_call("product", [entry_point |-> "GrB_mxm"],
        GrB_mxm(c, m, self.accumulator, self.semiring, a, b,
                [self.options EXCEPT !.complement = FALSE]), "product")

\* fault: the mask is not handed to the engine
MatrixMultiplication_apply_with_mask_ignoring_mask(self, m, a, b, c) ==
    Context_call("product", [entry_point |-> "GrB_mxm"],
        GrB_mxm(c, NullPointer, self.accumulator, self.semiring, a, b, self.options), "product")

MatrixMultiplication_apply_with_mask(self, m, a, b, c) ==
    Context_call("product", [entry_point |-> "GrB_mxm"],
        GrB_mxm(c, m, self.accumulator, self.semiring, a, b, self.options), "product")

(***************************************************************************)
(* MatrixVectorMultiplicationOperator.                                     *)
(***************************************************************************)
MatrixVectorMultiplicationOperator_new(semiring, operator_options, accumulator) ==
    [accumulator |-> accumulator,
     semiring |-> semiring,
     options |-> to_graphblas_descriptor(operator_options)]

\* fault: the applier's accumulator is not handed to the engine
MatrixVectorMultiplication_apply_discarding(self, a, b, c) ==
    Context_call("product", [entry_point |-> "GrB_mxv"],
        GrB_mxv(c, NullPointer, "Assignment", self.semiring, a, b, self.options), "product")

\* fault: after a failed engine call the wrapper cleans the output up
MatrixVectorMultiplication_apply_clearing(self, a, b, c) ==
    LET outcome == Context_call("product", [entry_point |-> "GrB_mxv"],
        GrB_mxv(c, NullPointer, self.accumulator, self.semiring,
                                   a, b, self.options), "product")
    IN  IF outcome.result = "Ok"
        THEN outcome
        ELSE [outcome EXCEPT !.product = EmptyCollection(c.size)]

MatrixVectorMultiplication_apply(self, a, b, c) ==
    Context_call("product", [entry_point |-> "GrB_mxv"],
        GrB_mxv(c, NullPointer, self.accumulator, self.semiring, a, b, self.options), "product")

\* fault: the mask is not handed to the engine
MatrixVectorMultiplication_apply_ignoring_mask(self, m, a, b, c) ==
    Context_call("product", [entry_point |-> "GrB_mxv"],
        GrB_mxv(c, NullPointer, self.accumulator, self.semiring, a, b, self.options), "product")

MatrixVectorMultiplication_apply_with_mask(self, m, a, b, c) ==
    Context_call("product", [entry_point |-> "GrB_mxv"],
        GrB_mxv(c, m, self.accumulator, self.semiring, a, b, self.options), "product")

(***************************************************************************)
(* UnaryOperatorApplier.                                                   *)
(***************************************************************************)
UnaryOperatorApplier_new(unary_operator, operator_options, accumulator) ==
    [unary_operator |-> unary_operator,
     accumulator |-> accumulator,
     options |-> to_graphblas_descriptor(operator_options)]

\* fault: the applier's unary operator is not handed to the engine
UnaryOperatorApplier_apply_to_vector_identity(self, argument, c) ==
    Context_call("argument", [entry_point |-> "GrB_Vector_apply"],
        GrB_Vector_apply(c, NullPointer, self.accumulator, "Identity",
                argument, self.options), "product")

\* fault: the Result of the gateway is dropped and Ok returned instead
UnaryOperatorApplier_apply_to_vector_swallowing(self, argument, c) ==
    [Context_call("argument", [entry_point |-> "GrB_Vector_apply"],
        GrB_Vector_apply(c, NullPointer, self.accumulator, self.unary_operator,
                argument, self.options), "product") EXCEPT !.result = "Ok"]

UnaryOperatorApplier_apply_to_vector(self, argument, c) ==
    Context_call("argument", [entry_point |-> "GrB_Vector_apply"],
        GrB_Vector_apply(c, NullPointer, self.accumulator, self.unary_operator,
                argument, self.options), "product")

UnaryOperatorApplier_apply_to_vector_with_mask(self, argument, c, m) ==
    Context_call("argument", [entry_point |-> "GrB_Vector_apply"],
        GrB_Vector_apply(c, m, self.accumulator, self.unary_operator,
                argument, self.options), "product")

\* fault: the output is handed to the engine as the argument, too
UnaryOperatorApplier_apply_to_matrix_in_place(self, argument, c) ==
    Context_call("argument", [entry_point |-> "GrB_Matrix_apply"],
        GrB_Matrix_apply(c, NullPointer, self.accumulator, self.unary_operator,
                c, self.options), "product")

UnaryOperatorApplier_apply_to_matrix(self, argument, c) ==
    Context_call("argument", [entry_point |-> "GrB_Matrix_apply"],
        GrB_Matrix_apply(c, NullPointer, self.accumulator, self.unary_operator,
                argument, self.options), "product")

\* fault: the descriptor handed to the engine asks to replace the output
UnaryOperatorApplier_apply_to_matrix_with_mask_replacing(self, argument, c, m) ==
    Context_call("argument", [entry_point |-> "GrB_Matrix_apply"],
        GrB_Matrix_apply(c, m, self.accumulator, self.unary_operator,
                argument, [self.options EXCEPT !.replace = TRUE]), "product")

UnaryOperatorApplier_apply_to_matrix_with_mask(self, argument, c, m) ==
    Context_call("argument", [entry_point |-> "GrB_Matrix_apply"],
        GrB_Matrix_apply(c, m, self.accumulator, self.unary_operator,
                argument, self.options), "product")

(***************************************************************************)
(* MatrixColumnExtractor.                                                  *)
(***************************************************************************)
\* fault: the first column is extracted whatever the column index
MatrixColumnExtractor_apply_first_column(matrix_to_extract_from, column_index_to_extract, indices_to_extract, accumulator, column_vector, vector_mask, operator_options) ==
    LET failure == FirstFailure(StepsOf(indices_to_extract))
        number_of_indices_to_extract ==
            to_graphblas_index(
                IF indices_to_extract.selector = "Index"
                THEN Len(indices_to_extract.indices)
                ELSE row_height(matrix_to_extract_from))
        graphblas_indices == ElementIndexSelector_to_graphblas_type(indices_to_extract)
    IN  IF failure # "none"
        THEN {ReturnedEarly(failure, column_vector)}
        ELSE {Context_call("matrix_to_extract_from", [entry_point |-> "GrB_Col_extract", number_of_indices |-> number_of_indices_to_extract],
            returned, "column_vector") : returned \in
                GrB_Col_extract(column_vector, VectorMask_graphblas_vector(vector_mask),
                    accumulator, matrix_to_extract_from, graphblas_indices.index,
                    number_of_indices_to_extract, to_graphblas_index(0),
                    to_graphblas_descriptor(operator_options))}

\* fault: the engine's status is dropped instead of propagated
MatrixColumnExtractor_apply_unchecked(matrix_to_extract_from, column_index_to_extract, indices_to_extract, accumulator, column_vector, vector_mask, operator_options) ==
    LET failure == FirstFailure(StepsOf(indices_to_extract))
        number_of_indices_to_extract ==
            to_graphblas_index(
                IF indices_to_extract.selector = "Index"
                THEN Len(indices_to_extract.indices)
                ELSE row_height(matrix_to_extract_from))
        graphblas_indices == ElementIndexSelector_to_graphblas_type(indices_to_extract)
    IN  IF failure # "none"
        THEN {ReturnedEarly(failure, column_vector)}
        ELSE {[Context_call("matrix_to_extract_from", [entry_point |-> "GrB_Col_extract", number_of_indices |-> number_of_indices_to_extract],
            returned, "column_vector") EXCEPT !.result = "Ok"] : returned \in
                GrB_Col_extract(column_vector, VectorMask_graphblas_vector(vector_mask),
                    accumulator, matrix_to_extract_from, graphblas_indices.index,
                    number_of_indices_to_extract, to_graphblas_index(column_index_to_extract),
                    to_graphblas_descriptor(operator_options))}

\* fault: the column next to the requested one is extracted
MatrixColumnExtractor_apply_other_column(matrix_to_extract_from, column_index_to_extract, indices_to_extract, accumulator, column_vector, vector_mask, operator_options) ==
    LET failure == FirstFailure(StepsOf(indices_to_extract))
        number_of_indices_to_extract ==
            to_graphblas_index(
                IF indices_to_extract.selector = "Index"
                THEN Len(indices_to_extract.indices)
                ELSE row_height(matrix_to_extract_from))
        graphblas_indices == ElementIndexSelector_to_graphblas_type(indices_to_extract)
    IN  IF failure # "none"
        THEN {ReturnedEarly(failure, column_vector)}
        ELSE {Context_call("matrix_to_extract_from", [entry_point |-> "GrB_Col_extract", number_of_indices |-> number_of_indices_to_extract],
            returned, "column_vector") : returned \in
                GrB_Col_extract(column_vector, VectorMask_graphblas_vector(vector_mask),
                    accumulator, matrix_to_extract_from, graphblas_indices.index,
                    number_of_indices_to_extract, to_graphblas_index(1 - column_index_to_extract),
                    to_graphblas_descriptor(operator_options))}

\* fault: the engine is told one index less than the explicit list holds
MatrixColumnExtractor_apply_one_index_short(matrix_to_extract_from, column_index_to_extract, indices_to_extract, accumulator, column_vector, vector_mask, operator_options) ==
    LET failure == FirstFailure(StepsOf(indices_to_extract))
        number_of_indices_to_extract ==
            to_graphblas_index(
                IF indices_to_extract.selector = "Index"
                THEN Len(indices_to_extract.indices) - 1
                ELSE row_height(matrix_to_extract_from))
        graphblas_indices == ElementIndexSelector_to_graphblas_type(indices_to_extract)
    IN  IF failure # "none"
        THEN {ReturnedEarly(failure, column_vector)}
        ELSE {Context_call("matrix_to_extract_from", [entry_point |-> "GrB_Col_extract", number_of_indices |-> number_of_indices_to_extract],
            returned, "column_vector") : returned \in
                GrB_Col_extract(column_vector, VectorMask_graphblas_vector(vector_mask),
                    accumulator, matrix_to_extract_from, graphblas_indices.index,
                    number_of_indices_to_extract, to_graphblas_index(column_index_to_extract),
                    to_graphblas_descriptor(operator_options))}

\* fault: the conversions are checked after the engine call instead of before
MatrixColumnExtractor_apply_converting_late(matrix_to_extract_from, column_index_to_extract, indices_to_extract, accumulator, column_vector, vector_mask, operator_options) ==
    LET failure == FirstFailure(StepsOf(indices_to_extract))
        number_of_indices_to_extract ==
            to_graphblas_index(
                IF indices_to_extract.selector = "Index"
                THEN Len(indices_to_extract.indices)
                ELSE row_height(matrix_to_extract_from))
        graphblas_indices == ElementIndexSelector_to_graphblas_type(indices_to_extract)
    IN  {IF failure # "none" /\ called.result = "Ok"
         THEN [called EXCEPT !.result = failure]
         ELSE called : called \in
            {Context_call("matrix_to_extract_from", [entry_point |-> "GrB_Col_extract", number_of_indices |-> number_of_indices_to_extract],
            returned, "column_vector") : returned \in
                GrB_Col_extract(column_vector, VectorMask_graphblas_vector(vector_mask),
                    accumulator, matrix_to_extract_from, graphblas_indices.index,
                    number_of_indices_to_extract, to_graphblas_index(column_index_to_extract),
                    to_graphblas_descriptor(operator_options))}}

MatrixColumnExtractor_apply(matrix_to_extract_from, column_index_to_extract, indices_to_extract, accumulator, column_vector, vector_mask, operator_options) ==
    LET failure == FirstFailure(StepsOf(indices_to_extract))
        number_of_indices_to_extract ==
            to_graphblas_index(
                IF indices_to_extract.selector = "Index"
                THEN Len(indices_to_extract.indices)
                ELSE row_height(matrix_to_extract_from))
        graphblas_indices == ElementIndexSelector_to_graphblas_type(indices_to_extract)
    IN  IF failure # "none"
        THEN {ReturnedEarly(failure, column_vector)}
        ELSE {Context_call("matrix_to_extract_from", [entry_point |-> "GrB_Col_extract", number_of_indices |-> number_of_indices_to_extract],
            returned, "column_vector") : returned \in
                GrB_Col_extract(column_vector, VectorMask_graphblas_vector(vector_mask),
                    accumulator, matrix_to_extract_from, graphblas_indices.index,
                    number_of_indices_to_extract, to_graphblas_index(column_index_to_extract),
                    to_graphblas_descriptor(operator_options))}

(***************************************************************************)
(* The driver: the collections the tests build, and their sub-patterns.    *)
(***************************************************************************)
MultiplierVector == SparseVector_from_element_list(<<1, 2>>)

MultiplicantVector == SparseVector_from_element_list(<<5, 6>>)

MultiplierMatrix == SparseMatrix_from_element_list(<<<<1, 3>>, <<2, 4>>>>)

MultiplicantMatrix == SparseMatrix_from_element_list(<<<<5, 7>>, <<6, 8>>>>)

MaskMatrix ==
    [size |-> <<2, 2>>, elements |-> (<<0, 0>> :> 3) @@ (<<1, 0>> :> 0) @@ (<<1, 1>> :> 1)]

MaskVector == SparseVector_from_element_list(<<3, 0>>)

MaskVectors == SparseCollections(<<2>>, {0, 3})

SourceMatrix == SparseMatrix_from_element_list(<<<<1, 4>>, <<2, 5>>, <<3, 6>>>>)

\* a source with values at and beyond the largest value of the output's type
WideSourceMatrix == SparseMatrix_from_element_list(<<<<255, 4>>, <<256, 5>>, <<300, 65535>>>>)

\* a matrix without its entry at the lower right, a vector without its last entry
WithoutLast(collection) ==
    [size |-> collection.size,
     elements |-> Restrict(collection.elements,
                    (DOMAIN collection.elements) \ {[n \in 1..Len(collection.size) |-> collection.size[n] - 1]})]

\* a mask that does not fit an output of the given size: one more place along
\* the first dimension
MismatchedMask(size) ==
    [size |-> [size EXCEPT ![1] = @ + 1], elements |-> [c \in Coordinates(size) |-> 1]]

PriorOutput(size) == [size |-> size, elements |-> [c \in Coordinates(size) |-> 9]]

Outputs(size) == {EmptyCollection(size), PriorOutput(size)}

ElementIndexSelectors(height) ==
    {ElementIndexSelector_All} \cup
    {ElementIndexSelector_Index(indices) :
        indices \in UNION {[1..n -> 0..height] : n \in 1..MaxSelectorLength}}

NoSelection == [indices_to_extract |-> ElementIndexSelector_All, column_index_to_extract |-> 0]

NoCall == [method |-> "none", masked |-> FALSE, accumulator |-> "none", operator |-> "none",
           options |-> OperatorOptions_new_default, result |-> "none", status |-> "none",
           left |-> EmptyCollection(<<1>>), pending |-> "none",
           context_of |-> "none", failed_output |-> "none", issued |-> <<>>]

\* no call yet of the family's applier, whose operator is a semiring for the
\* two multiplications
NoCallOf(applier) ==
    IF applier \in {"matrix_multiplication", "matrix_vector_multiplication"}
    THEN [NoCall EXCEPT !.operator = [add |-> "none", multiply |-> "none"]]
    ELSE NoCall

\* Context::init_ready: the engine in the given mode, nothing deferred.
Context_init_ready(mode) ==
    [mode |-> mode, live |-> TRUE, fault |-> "none", defers |-> FALSE,
     leaves |-> "untouched", pending |-> "none"]

\* The parallel test is not running.
NoThreads ==
    /\ matrices = <<>>
    /\ result_matrix = [locked_by |-> 0, data |-> EmptyCollection(<<1>>)]
    /\ pc = <<>>
    /\ element_wise_matrix_add_operator = NoCall
    /\ constructed = NoCall

InitElementWiseVectorAddition ==
    /\ family = "element_wise_vector_addition"
    /\ \/ /\ multiplier \in SubCollections(MultiplierVector)
          /\ multiplicant \in SubCollections(MultiplicantVector)
          /\ mask \in MaskVectors
          /\ options \in MaskOptions
          /\ product \in Outputs(<<2>>)
       \/ /\ multiplier = SparseVector_from_element_list(<<1, 2, 3, 4>>)
          /\ multiplicant = SparseVector_from_element_list(<<5, 6, 7, 8>>)
          /\ mask = [size |-> <<4>>, elements |-> (<<0>> :> 3) @@ (<<1>> :> 0) @@ (<<3>> :> 1)]
          /\ options = OperatorOptions_new_default
          /\ product = EmptyCollection(<<4>>)
       \/ /\ multiplier = MultiplierVector
          /\ multiplicant = MultiplicantVector
          /\ mask = MismatchedMask(<<2>>)
          /\ options = OperatorOptions_new_default
          /\ product \in Outputs(<<2>>)
    /\ selection = NoSelection

MatrixOperands ==
    /\ \/ /\ multiplier \in SubCollections(MultiplierMatrix)
          /\ multiplicant \in SubCollections(MultiplicantMatrix)
          /\ mask = MaskMatrix
          /\ options = OperatorOptions_new_default
       \/ /\ multiplier \in {MultiplierMatrix, WithoutLast(MultiplierMatrix)}
          /\ multiplicant = MultiplicantMatrix
          /\ mask \in SubCollections(MaskMatrix)
          /\ options \in MaskOptions
       \/ /\ multiplier = MultiplierMatrix
          /\ multiplicant = MultiplicantMatrix
          /\ mask = MismatchedMask(<<2, 2>>)
          /\ options = OperatorOptions_new_default
    /\ product \in Outputs(<<2, 2>>)
    /\ selection = NoSelection

InitElementWiseMatrixMultiplication ==
    /\ family = "element_wise_matrix_multiplication"
    /\ MatrixOperands

InitMatrixMultiplication ==
    /\ family = "matrix_multiplication"
    /\ \/ MatrixOperands
       \/ /\ multiplier \in {MultiplierMatrix, WithoutLast(MultiplierMatrix)}
          /\ multiplicant = MultiplicantMatrix
          /\ mask = MaskMatrix
          /\ options \in TransposeOptions
          /\ product \in Outputs(<<2, 2>>)
          /\ selection = NoSelection

InitMatrixVectorMultiplication ==
    /\ family = "matrix_vector_multiplication"
    /\ \/ /\ multiplier \in SubCollections(MultiplicantMatrix)
          /\ multiplicant \in SubCollections(MultiplierVector)
          /\ mask = MaskVector
          /\ options = OperatorOptions_new_default
       \/ /\ multiplier \in {MultiplicantMatrix, WithoutLast(MultiplicantMatrix)}
          /\ multiplicant = MultiplierVector
          /\ mask \in MaskVectors
          /\ options \in MaskOptions \cup TransposeOptions
       \/ /\ multiplier = MultiplicantMatrix
          /\ multiplicant = MultiplierVector
          /\ mask = MismatchedMask(<<2>>)
          /\ options = OperatorOptions_new_default
    /\ product \in Outputs(<<2>>)
    /\ selection = NoSelection

InitUnaryVector ==
    /\ family = "unary_vector"
    /\ \/ /\ multiplier \in SparseCollections(<<2>>, {0, 1, 2})
          /\ mask = MaskVector
          /\ options = OperatorOptions_new_default
       \/ /\ multiplier \in {MultiplierVector, WithoutLast(MultiplierVector)}
          /\ mask \in MaskVectors \cup {MismatchedMask(<<2>>)}
          /\ options \in MaskOptions
    /\ multiplicant = EmptyCollection(<<2>>)
    /\ product \in Outputs(<<2>>)
    /\ selection = NoSelection

InitUnaryMatrix ==
    /\ family = "unary_matrix"
    /\ \/ /\ multiplier \in SubCollections(MultiplierMatrix)
          /\ mask = MaskMatrix
          /\ options = OperatorOptions_new_default
       \/ /\ multiplier \in {MultiplierMatrix, WithoutLast(MultiplierMatrix)}
          /\ mask \in SubCollections(MaskMatrix) \cup {MismatchedMask(<<2, 2>>)}
          /\ options \in MaskOptions
    /\ multiplicant = EmptyCollection(<<2, 2>>)
    /\ product \in Outputs(<<2, 2>>)
    /\ selection = NoSelection

InitColumnExtraction ==
    /\ family = "column_extraction"
    /\ \/ /\ multiplier \in {SourceMatrix, WithoutLast(SourceMatrix),
                             [size |-> <<3, 2>>, elements |-> Restrict(SourceMatrix.elements, {<<1, 0>>, <<2, 1>>})]}
          /\ selection \in [indices_to_extract : ElementIndexSelectors(3),
                            column_index_to_extract : {0, 1}]
          /\ mask = MaskVector
          /\ options = OperatorOptions_new_default
          /\ product \in Outputs(<<2>>) \cup Outputs(<<3>>)
       \/ /\ multiplier = SourceMatrix
          /\ selection \in [indices_to_extract : {ElementIndexSelector_Index(<<0, 2>>),
                                                  ElementIndexSelector_Index(<<2, 2>>)},
                            column_index_to_extract : {0}]
          /\ mask \in MaskVectors
          /\ options \in MaskOptions
          /\ product \in Outputs(<<2>>) \cup Outputs(<<3>>)
       \/ /\ multiplier \in {Typed(SourceMatrix, "u16"), Typed(WideSourceMatrix, "u16")}
          /\ selection \in [indices_to_extract : {ElementIndexSelector_Index(<<0, 2>>),
                                                  ElementIndexSelector_Index(<<1, 0>>)},
                            column_index_to_extract : {0, 1}]
          /\ mask = MaskVector
          /\ options = OperatorOptions_new_default
          /\ product \in {Typed(output, "u8") : output \in Outputs(<<2>>)}
    /\ multiplicant = EmptyCollection(<<2>>)

Init ==
    /\ \/ InitElementWiseVectorAddition
       \/ InitElementWiseMatrixMultiplication
       \/ InitMatrixMultiplication
       \/ InitMatrixVectorMultiplication
       \/ InitUnaryVector
       \/ InitUnaryMatrix
       \/ InitColumnExtraction
    /\ previous = product
    /\ computed = [c \in {} |-> 0]
    /\ last = NoCallOf(family)
    /\ penultimate = NoCallOf(family)
    /\ calls = 0
    /\ engine = Context_init_ready("NonBlocking")
    /\ failing = {}
    /\ NoThreads

\* fault: the call takes the elements out of a collection it was lent
Borrowed_cleared(collection) == EmptyCollection(collection.size)

\* an operand or a mask is lent to the call as a shared reference, and the
\* engine takes it as an input: the collection after the call
Borrowed(collection) == collection

(***************************************************************************)
(* One apply: the output takes what the call left in it, the histories     *)
(* record the call.                                                        *)
(***************************************************************************)
Call(method, masked, accumulator, operator, descriptor, outcome) ==
    /\ engine.live
    /\ product' = outcome.product
    /\ previous' = product
    /\ computed' = outcome.computed
    /\ last' = [method |-> method, masked |-> masked, accumulator |-> accumulator,
                operator |-> operator, options |-> descriptor, result |-> outcome.result,
                status |-> outcome.status, left |-> outcome.left, pending |-> outcome.pending,
                context_of |-> outcome.context_of, failed_output |-> outcome.failed_output,
                issued |-> outcome.issued]
    /\ penultimate' = last
    /\ calls' = calls + 1
    /\ engine' = [engine EXCEPT !.pending = outcome.pending]
    /\ multiplier' = Borrowed(multiplier)
    /\ multiplicant' = Borrowed(multiplicant)
    /\ mask' = Borrowed(mask)
    /\ UNCHANGED <<family, options, selection, failing>>
    /\ UNCHANGED parallel

\* The complement of a select-all mask is outside the model: only an explicit
\* mask carries a complement.
SelectAllAllowed == ~options.complement

ElementWiseVectorAdditionApply ==
    /\ family = "element_wise_vector_addition"
    /\ calls < MaxCalls
    /\ SelectAllAllowed
    /\ \E operator \in BinaryOperators, accumulator \in Accumulators :
        LET self == ElementWiseVectorAdditionBinaryOperator_new(operator, options, accumulator)
        IN  Call("apply", FALSE, self.accumulator, self.multiplication_operator, self.options,
                 ElementWiseVectorAddition_apply(self, multiplier, multiplicant, product))

ElementWiseVectorAdditionApplyWithMask ==
    /\ family = "element_wise_vector_addition"
    /\ calls < MaxCalls
    /\ \E operator \in BinaryOperators, accumulator \in Accumulators :
        LET self == ElementWiseVectorAdditionBinaryOperator_new(operator, options, accumulator)
        IN  Call("apply_with_mask", TRUE, self.accumulator, self.multiplication_operator, self.options,
                 ElementWiseVectorAddition_apply_with_mask(self, mask, multiplier, multiplicant, product))

ElementWiseMatrixMultiplicationApply ==
    /\ family = "element_wise_matrix_multiplication"
    /\ calls < MaxCalls
    /\ SelectAllAllowed
    /\ \E operator \in BinaryOperators, accumulator \in Accumulators :
        LET self == ElementWiseMatrixMultiplicationBinaryOperator_new(operator, options, accumulator)
        IN  Call("apply", FALSE, self.accumulator, self.multiplication_operator, self.options,
                 ElementWiseMatrixMultiplication_apply(self, multiplier, multiplicant, product))

ElementWiseMatrixMultiplicationApplyWithMask ==
    /\ family = "element_wise_matrix_multiplication"
    /\ calls < MaxCalls
    /\ \E operator \in BinaryOperators, accumulator \in Accumulators :
        LET self == ElementWiseMatrixMultiplicationBinaryOperator_new(operator, options, accumulator)
        IN  Call("apply_with_mask", TRUE, self.accumulator, self.multiplication_operator, self.options,
                 ElementWiseMatrixMultiplication_apply_with_mask(self, mask, multiplier, multiplicant, product))

MatrixMultiplicationApply ==
    /\ family = "matrix_multiplication"
    /\ calls < MaxCalls
    /\ SelectAllAllowed
    /\ \E accumulator \in Accumulators :
        LET self == MatrixMultiplicationOperator_new(PlusTimes, options, accumulator)
        IN  Call("apply", FALSE, self.accumulator, self.semiring, self.options,
                 MatrixMultiplication_apply(self, multiplier, multiplicant, product))

MatrixMultiplicationApplyWithMask ==
    /\ family = "matrix_multiplication"
    /\ calls < MaxCalls
    /\ \E accumulator \in Accumulators :
        LET self == MatrixMultiplicationOperator_new(PlusTimes, options, accumulator)
        IN  Call("apply_with_mask", TRUE, self.accumulator, self.semiring, self.options,
                 MatrixMultiplication_apply_with_mask(self, mask, multiplier, multiplicant, product))

MatrixVectorMultiplicationApply ==
    /\ family = "matrix_vector_multiplication"
    /\ calls < MaxCalls
    /\ SelectAllAllowed
    /\ \E accumulator \in Accumulators :
        LET self == MatrixVectorMultiplicationOperator_new(PlusTimes, options, accumulator)
        IN  Call("apply", FALSE, self.accumulator, self.semiring, self.options,
                 MatrixVectorMultiplication_apply(self, multiplier, multiplicant, product))

MatrixVectorMultiplicationApplyWithMask ==
    /\ family = "matrix_vector_multiplication"
    /\ calls < MaxCalls
    /\ \E accumulator \in Accumulators :
        LET self == MatrixVectorMultiplicationOperator_new(PlusTimes, options, accumulator)
        IN  Call("apply_with_mask", TRUE, self.accumulator, self.semiring, self.options,
                 MatrixVectorMultiplication_apply_with_mask(self, mask, multiplier, multiplicant, product))

UnaryApplyToVector ==
    /\ family = "unary_vector"
    /\ calls < MaxCalls
    /\ SelectAllAllowed
    /\ \E operator \in UnaryOperators, accumulator \in Accumulators :
        LET self == UnaryOperatorApplier_new(operator, options, accumulator)
        IN  Call("apply_to_vector", FALSE, self.accumulator, self.unary_operator, self.options,
                 UnaryOperatorApplier_apply_to_vector(self, multiplier, product))

UnaryApplyToVectorWithMask ==
    /\ family = "unary_vector"
    /\ calls < MaxCalls
    /\ \E operator \in UnaryOperators, accumulator \in Accumulators :
        LET self == UnaryOperatorApplier_new(operator, options, accumulator)
        IN  Call("apply_to_vector_with_mask", TRUE, self.accumulator, self.unary_operator, self.options,
                 UnaryOperatorApplier_apply_to_vector_with_mask(self, multiplier, product, mask))

UnaryApplyToMatrix ==
    /\ family = "unary_matrix"
    /\ calls < MaxCalls
    /\ SelectAllAllowed
    /\ \E operator \in UnaryOperators, accumulator \in Accumulators :
        LET self == UnaryOperatorApplier_new(operator, options, accumulator)
        IN  Call("apply_to_matrix", FALSE, self.accumulator, self.unary_operator, self.options,
                 UnaryOperatorApplier_apply_to_matrix(self, multiplier, product))

UnaryApplyToMatrixWithMask ==
    /\ family = "unary_matrix"
    /\ calls < MaxCalls
    /\ \E operator \in UnaryOperators, accumulator \in Accumulators :
        LET self == UnaryOperatorApplier_new(operator, options, accumulator)
        IN  Call("apply_to_matrix_with_mask", TRUE, self.accumulator, self.unary_operator, self.options,
                 UnaryOperatorApplier_apply_to_matrix_with_mask(self, multiplier, product, mask))

\* Into an output of a declared, narrower type the model extracts with
\* Assignment only, as the test does: accumulating through the accumulator's
\* own domain is outside the model.
AccumulatorsInto(column_vector) ==
    IF IsTyped(column_vector) THEN {"Assignment"} ELSE Accumulators

ColumnExtractionApply ==
    /\ family = "column_extraction"
    /\ calls < MaxCalls
    /\ \E accumulator \in AccumulatorsInto(product), vector_mask \in {SelectEntireVector, mask} :
        /\ vector_mask = SelectEntireVector => SelectAllAllowed
        /\ \E outcome \in MatrixColumnExtractor_apply(multiplier,
                            selection.column_index_to_extract, selection.indices_to_extract,
                            accumulator, product, vector_mask, options) :
                Call("apply", vector_mask # SelectEntireVector, accumulator, "extract",
                     to_graphblas_descriptor(options), outcome)

Next ==
    \/ ElementWiseVectorAdditionApply
    \/ ElementWiseVectorAdditionApplyWithMask
    \/ ElementWiseMatrixMultiplicationApply
    \/ ElementWiseMatrixMultiplicationApplyWithMask
    \/ MatrixMultiplicationApply
    \/ MatrixMultiplicationApplyWithMask
    \/ MatrixVectorMultiplicationApply
    \/ MatrixVectorMultiplicationApplyWithMask
    \/ UnaryApplyToVector
    \/ UnaryApplyToVectorWithMask
    \/ UnaryApplyToMatrix
    \/ UnaryApplyToMatrixWithMask
    \/ ColumnExtractionApply

Spec == Init /\ [][Next]_vars

(***************************************************************************)
(* The appliers over an engine that can run out of memory, in either mode  *)
(* of the Context.                                                         *)
(***************************************************************************)
EngineFaults == {"GrB_OUT_OF_MEMORY"}

Engines ==
    [mode : {"Blocking", "NonBlocking"}, live : {TRUE}, fault : {"none"} \cup EngineFaults,
     defers : BOOLEAN, leaves : {"untouched", "cleared"}, pending : {"none"}]

FaultOperands ==
    \/ /\ family = "element_wise_vector_addition"
       /\ multiplier = MultiplierVector
       /\ multiplicant = MultiplicantVector
       /\ mask \in {MaskVector, MismatchedMask(<<2>>)}
       /\ product = PriorOutput(<<2>>)
       /\ selection = NoSelection
    \/ /\ family \in {"element_wise_matrix_multiplication", "matrix_multiplication"}
       /\ multiplier = MultiplierMatrix
       /\ multiplicant = MultiplicantMatrix
       /\ mask \in {MaskMatrix, MismatchedMask(<<2, 2>>)}
       /\ product = PriorOutput(<<2, 2>>)
       /\ selection = NoSelection
    \/ /\ family = "matrix_vector_multiplication"
       /\ multiplier = MultiplicantMatrix
       /\ multiplicant = MultiplierVector
       /\ mask \in {MaskVector, MismatchedMask(<<2>>)}
       /\ product = PriorOutput(<<2>>)
       /\ selection = NoSelection
    \/ /\ family = "unary_vector"
       /\ multiplier = MultiplierVector
       /\ multiplicant = EmptyCollection(<<2>>)
       /\ mask \in {MaskVector, MismatchedMask(<<2>>)}
       /\ product = PriorOutput(<<2>>)
       /\ selection = NoSelection
    \/ /\ family = "unary_matrix"
       /\ multiplier = MultiplierMatrix
       /\ multiplicant = EmptyCollection(<<2, 2>>)
       /\ mask \in {MaskMatrix, MismatchedMask(<<2, 2>>)}
       /\ product = PriorOutput(<<2, 2>>)
       /\ selection = NoSelection
    \/ /\ family = "column_extraction"
       /\ multiplier = SourceMatrix
       /\ multiplicant = EmptyCollection(<<2>>)
       /\ mask = MaskVector
       /\ product = PriorOutput(<<2>>)
       /\ selection \in [indices_to_extract : {ElementIndexSelector_Index(<<0, 2>>),
                                               ElementIndexSelector_Index(<<0, 3>>)},
                         column_index_to_extract : {0}]

FaultInit ==
    /\ FaultOperands
    /\ options = OperatorOptions_new_default
    /\ previous = product
    /\ computed = [c \in {} |-> 0]
    /\ last = NoCallOf(family)
    /\ penultimate = NoCallOf(family)
    /\ calls = 0
    /\ engine \in Engines
    /\ failing = {}
    /\ NoThreads

\* Between two calls the engine's memory runs out or is freed again.
MemoryChanges ==
    /\ engine.live
    /\ \E fault \in ({"none"} \cup EngineFaults) \ {engine.fault} :
            engine' = [engine EXCEPT !.fault = fault]
    /\ UNCHANGED <<inputs, product, previous, computed, last, penultimate, calls>>
    /\ UNCHANGED parallel

\* The program ends: the last holder drops the Context, the engine is torn
\* down and what it had deferred is gone with it.
ContextDrop ==
    /\ engine.live
    /\ engine' = [engine EXCEPT !.live = FALSE, !.pending = "none"]
    /\ UNCHANGED <<inputs, product, previous, computed, last, penultimate, calls>>
    /\ UNCHANGED parallel

FaultNext ==
    \/ Next
    \/ MemoryChanges
    \/ ContextDrop

FaultSpec == FaultInit /\ [][FaultNext]_vars

\* The program does not run for ever: after its last apply the last holder
\* drops the Context.
FairFaultSpec == FaultSpec /\ WF_vars(ContextDrop)

(***************************************************************************)
(* parallel_calls_to_graphblas: the threads of a parallel iterator share   *)
(* one applier and accumulate into one output behind a Mutex.              *)
(***************************************************************************)
NumberOfMatrices == 3

Threads == 1..NumberOfMatrices

matrix_size == <<10, 5>>

\* MatrixElement::from_triple(row, column, value)
MatrixElements == {<<1, 2, 3>>, <<1, 2, 4>>, <<0, 0, 3>>}

WithElement(element) ==
    [size |-> matrix_size, elements |-> (<<element[1], element[2]>> :> element[3])]

SelectEntireMatrixMask ==
    [size |-> matrix_size, elements |-> [c \in Coordinates(matrix_size) |-> 1]]

NotStarted == [at |-> "ready", output |-> EmptyCollection(<<1>>)]

ParallelInit ==
    /\ family = "parallel_calls_to_graphblas"
    /\ multiplier = EmptyCollection(matrix_size)
    /\ multiplicant = EmptyCollection(matrix_size)
    /\ mask = SelectEntireMatrixMask
    /\ options = OperatorOptions_new_default
    /\ selection = NoSelection
    /\ failing = {}
    /\ product = EmptyCollection(matrix_size)
    /\ previous = product
    /\ computed = [c \in {} |-> 0]
    /\ last = NoCall
    /\ penultimate = NoCall
    /\ calls = 0
    /\ engine = Context_init_ready("NonBlocking")
    /\ matrices \in [Threads -> {WithElement(element) : element \in MatrixElements}]
    /\ result_matrix = [locked_by |-> 0, data |-> EmptyCollection(matrix_size)]
    /\ pc = [t \in Threads |-> NotStarted]
    /\ \E operator \in {"Plus", "Times"}, accumulator \in Accumulators :
            element_wise_matrix_add_operator =
                ElementWiseMatrixMultiplicationBinaryOperator_new(operator, options, accumulator)
    /\ constructed = element_wise_matrix_add_operator

sequential == <<inputs, product, previous, computed, last, penultimate, calls, engine>>

\* fault: the thread goes on without waiting for the Mutex to be free
Lock_unguarded(t) ==
    /\ pc[t].at = "ready"
    /\ result_matrix' = [result_matrix EXCEPT !.locked_by = t]
    /\ pc' = [pc EXCEPT ![t].at = "locked"]
    /\ UNCHANGED <<matrices, element_wise_matrix_add_operator, constructed>>
    /\ UNCHANGED sequential

\* result_matrix.lock().unwrap(): the thread waits until the Mutex is free
Lock(t) ==
    /\ pc[t].at = "ready"
    /\ result_matrix.locked_by = 0
    /\ result_matrix' = [result_matrix EXCEPT !.locked_by = t]
    /\ pc' = [pc EXCEPT ![t].at = "locked"]
    /\ UNCHANGED <<matrices, element_wise_matrix_add_operator, constructed>>
    /\ UNCHANGED sequential

\* the engine call starts from the output as the thread finds it
ApplyBegins(t) ==
    /\ pc[t].at = "locked"
    /\ pc' = [pc EXCEPT ![t] = [at |-> "applying", output |-> result_matrix.data]]
    /\ UNCHANGED <<matrices, result_matrix, element_wise_matrix_add_operator, constructed>>
    /\ UNCHANGED sequential

\* .unwrap() on the Result of the apply
Unwrap(t, outcome) ==
    /\ result_matrix' = [result_matrix EXCEPT !.data = outcome.product]
    /\ pc' = [pc EXCEPT ![t] = [at |-> IF outcome.result = "Ok" THEN "applied" ELSE "panicked",
                                output |-> EmptyCollection(<<1>>)]]
    /\ element_wise_matrix_add_operator' = SharedReference(element_wise_matrix_add_operator)
    /\ UNCHANGED <<matrices, constructed>>
    /\ UNCHANGED sequential

ApplyReturns(t) ==
    /\ pc[t].at = "applying"
    /\ Unwrap(t, ElementWiseMatrixMultiplication_apply(element_wise_matrix_add_operator,
                    matrices[t], matrices[t], pc[t].output))

ApplyWithMaskReturns(t) ==
    /\ pc[t].at = "applying"
    /\ Unwrap(t, ElementWiseMatrixMultiplication_apply_with_mask(element_wise_matrix_add_operator,
                    mask, matrices[t], matrices[t], pc[t].output))

\* the guard of the Mutex is dropped at the end of the statement
Unlock(t) ==
    /\ pc[t].at = "applied"
    /\ result_matrix.locked_by = t
    /\ result_matrix' = [result_matrix EXCEPT !.locked_by = 0]
    /\ pc' = [pc EXCEPT ![t].at = "done"]
    /\ UNCHANGED <<matrices, element_wise_matrix_add_operator, constructed>>
    /\ UNCHANGED sequential

ParallelNext ==
    \E t \in Threads :
        \/ Lock(t)
        \/ ApplyBegins(t)
        \/ ApplyReturns(t)
        \/ ApplyWithMaskReturns(t)
        \/ Unlock(t)

ParallelSpec == ParallelInit /\ [][ParallelNext]_vars

(***************************************************************************)
(* Threads applying one shared applier to a shared operand, each into an   *)
(* output of its own, without a lock.                                      *)
(***************************************************************************)
SharedOperand == WithElement(<<1, 2, 3>>)

SharedMask == [size |-> matrix_size, elements |-> (<<1, 2>> :> 1) @@ (<<0, 0>> :> 0)]

PriorElement == <<1, 2, 7>>

Idle == [at |-> "ready", method |-> "none", output |-> EmptyCollection(<<1>>)]

DisjointInit ==
    /\ family = "disjoint_outputs"
    /\ multiplier = SharedOperand
    /\ multiplicant = EmptyCollection(matrix_size)
    /\ mask = SharedMask
    /\ options = OperatorOptions_new_default
    /\ selection = NoSelection
    /\ failing = {}
    /\ product \in {[t \in Threads |-> output] :
                        output \in {EmptyCollection(matrix_size), WithElement(PriorElement)}}
    /\ previous = product
    /\ computed = [c \in {} |-> 0]
    /\ last = NoCall
    /\ penultimate = NoCall
    /\ calls = 0
    /\ engine = Context_init_ready("NonBlocking")
    /\ matrices \in [Threads -> {WithElement(element) : element \in MatrixElements}]
    /\ result_matrix = [locked_by |-> 0, data |-> EmptyCollection(<<1>>)]
    /\ pc = [t \in Threads |-> Idle]
    /\ \E operator \in BinaryOperators \cup {"Plus"}, accumulator \in Accumulators :
            element_wise_matrix_add_operator =
                ElementWiseMatrixMultiplicationBinaryOperator_new(operator, options, accumulator)
    /\ constructed = element_wise_matrix_add_operator

\* the engine call of thread t starts, on the thread's own output
DisjointApplyBegins(t) ==
    /\ pc[t].at = "ready"
    /\ \E method \in {"apply", "apply_with_mask"} :
            pc' = [pc EXCEPT ![t] = [at |-> "applying", method |-> method, output |-> product[t]]]
    /\ UNCHANGED <<inputs, product, previous, computed, last, penultimate, calls, engine>>
    /\ UNCHANGED <<matrices, result_matrix, element_wise_matrix_add_operator, constructed>>

\* what the method thread t chose returns for the shared applier, the shared
\* operand, the thread's own operand and an output
Applied(applier, method, shared, own, output) ==
    IF method = "apply"
    THEN ElementWiseMatrixMultiplication_apply(applier, shared, own, output)
    ELSE ElementWiseMatrixMultiplication_apply_with_mask(applier, mask, shared, own, output)

\* the engine call of thread t returns: its output is written, what it
\* borrowed is given back
DisjointApplyReturns(t) ==
    /\ pc[t].at = "applying"
    /\ LET outcome == Applied(element_wise_matrix_add_operator, pc[t].method,
                              multiplier, matrices[t], pc[t].output)
       IN  /\ product' = [product EXCEPT ![t] = outcome.product]
           /\ pc' = [pc EXCEPT ![t].at = IF outcome.result = "Ok" THEN "done" ELSE "panicked"]
           /\ engine' = [engine EXCEPT !.pending = outcome.pending]
    /\ element_wise_matrix_add_operator' = SharedReference(element_wise_matrix_add_operator)
    /\ multiplier' = Borrowed(multiplier)
    /\ mask' = Borrowed(mask)
    /\ matrices' = [matrices EXCEPT ![t] = Borrowed(@)]
    /\ UNCHANGED <<family, multiplicant, options, selection, failing>>
    /\ UNCHANGED <<previous, computed, last, penultimate, calls, result_matrix, constructed>>

DisjointNext ==
    \E t \in Threads :
        \/ DisjointApplyBegins(t)
        \/ DisjointApplyReturns(t)

DisjointSpec == DisjointInit /\ [][DisjointNext]_vars


(***************************************************************************)
(* Properties of the appliers.                                             *)
(***************************************************************************)
\* the value stored at a coordinate, or none
ValueAt(collection, c) ==
    IF c \in Stored(collection) THEN <<collection.elements[c]>> ELSE <<>>

Succeeded == last.result = "Ok"

\* a value as the output stores it: in the output's type when it declares one
AsStored(value) ==
    IF IsTyped(product) THEN CastTo(product.value_type, value) ELSE value

\* the computed value at a coordinate as the output stores it, or none
ComputedAt(c) ==
    IF c \in DOMAIN computed THEN <<AsStored(computed[c])>> ELSE <<>>

Masked == last.masked

Unmasked == last.method # "none" /\ ~last.masked

CastsToTrue(c) == c \in Stored(mask) /\ mask.elements[c] # 0

\* the coordinates the explicit mask lets the latest call write
Writable(c) ==
    LET present == IF last.options.structural THEN c \in Stored(mask) ELSE CastsToTrue(c)
    IN  IF last.options.complement THEN ~present ELSE present

\* C1 as stated: whatever the options, a coordinate that is absent from the
\* mask, or whose mask value casts to false, with complement unset, holds
\* after apply_with_mask what it held before.
C1_AsStated ==
    Masked =>
        \A c \in Coordinates(product.size) :
            (~last.options.complement /\ ~CastsToTrue(c)) =>
                ValueAt(product, c) = ValueAt(previous, c)

\* C1, amended: when the options do not set replace-output, a coordinate
\* that the mask does not select under the options (structural
\* interpretation and complement taken into account) holds after
\* apply_with_mask what it held before.
C1_UnselectedUnchanged ==
    (Masked /\ ~last.options.replace) =>
        \A c \in Coordinates(product.size) :
            ~Writable(c) => ValueAt(product, c) = ValueAt(previous, c)

\* a masked call wrote somewhere and kept an unselected entry for which it
\* had computed another value
C1_Witness ==
    /\ Masked /\ Succeeded /\ ~last.options.replace
    /\ product # previous
    /\ \E c \in Stored(previous) \cap DOMAIN computed :
        /\ ~Writable(c)
        /\ computed[c] # previous.elements[c]
        /\ ValueAt(product, c) = ValueAt(previous, c)

\* C2: compute, then accumulate.  At a coordinate the call writes (one with a
\* computed value that the mask, if any, selects), Assignment stores the
\* computed value; any other accumulator stores
\* combine(existing value, computed value) where the output held a value, and
\* the computed value where it held none.
C2_ComputeThenAccumulate ==
    Succeeded =>
        \A c \in DOMAIN computed :
            (Masked => Writable(c)) =>
                IF last.accumulator = "Assignment" \/ c \notin Stored(previous)
                THEN ValueAt(product, c) = ComputedAt(c)
                ELSE ValueAt(product, c) =
                        <<AsStored(EvaluateBinaryOperator(last.accumulator,
                                        previous.elements[c], computed[c]))>>

\* the accumulator First kept the existing value, which differs from the
\* computed one: the existing value is the first argument
C2_Witness ==
    /\ Succeeded /\ last.accumulator = "First"
    /\ \E c \in DOMAIN computed \cap Stored(previous) :
        /\ Masked => Writable(c)
        /\ computed[c] # previous.elements[c]
        /\ ValueAt(product, c) = <<previous.elements[c]>>

\* an apply with Assignment followed by an apply of the same operation on the
\* same operands with Plus, both without mask
AssignmentThenPlus ==
    /\ penultimate.method # "none" /\ ~penultimate.masked /\ penultimate.result = "Ok"
    /\ Unmasked /\ Succeeded
    /\ penultimate.method = last.method
    /\ penultimate.operator = last.operator
    /\ penultimate.accumulator = "Assignment"
    /\ last.accumulator = "Plus"

C4_AdditionOnUnion ==
    (family = "element_wise_vector_addition" /\ Succeeded) =>
        /\ DOMAIN computed = Stored(multiplier) \cup Stored(multiplicant)
        /\ \A c \in DOMAIN computed :
            computed[c] =
                IF c \notin Stored(multiplicant) THEN multiplier.elements[c]
                ELSE IF c \notin Stored(multiplier) THEN multiplicant.elements[c]
                ELSE EvaluateBinaryOperator(last.operator,
                        multiplier.elements[c], multiplicant.elements[c])
        /\ (/\ multiplier = SparseVector_from_element_list(<<1, 2, 3, 4>>)
            /\ multiplicant = SparseVector_from_element_list(<<5, 6, 7, 8>>)
            /\ last.operator = "Times")
           => computed = SparseVector_from_element_list(<<5, 12, 21, 32>>).elements

\* the example, written into the output with Assignment
C4_Witness ==
    /\ family = "element_wise_vector_addition" /\ Succeeded /\ Unmasked
    /\ multiplier = SparseVector_from_element_list(<<1, 2, 3, 4>>)
    /\ multiplicant = SparseVector_from_element_list(<<5, 6, 7, 8>>)
    /\ last.operator = "Times" /\ last.accumulator = "Assignment"
    /\ product = SparseVector_from_element_list(<<5, 12, 21, 32>>)

\* C5: element-wise multiplication computes a result on the intersection of
\* the operands' stored coordinates, carrying operator(first, second); a
\* coordinate stored in one operand only produces no entry.
C5_MultiplicationOnIntersection ==
    (family = "element_wise_matrix_multiplication" /\ Succeeded) =>
        /\ DOMAIN computed = Stored(multiplier) \cap Stored(multiplicant)
        /\ \A c \in DOMAIN computed :
            computed[c] = EvaluateBinaryOperator(last.operator,
                            multiplier.elements[c], multiplicant.elements[c])

\* a coordinate stored in the first operand only produced no entry, another
\* stored in both carries First(first, second), the first operand's value
C5_Witness ==
    /\ family = "element_wise_matrix_multiplication" /\ Succeeded
    /\ last.operator = "First" /\ last.accumulator = "Assignment" /\ Unmasked
    /\ \E c \in Stored(multiplier) \ Stored(multiplicant) : c \notin Stored(product)
    /\ \E c \in Stored(multiplier) \cap Stored(multiplicant) :
        /\ multiplier.elements[c] # multiplicant.elements[c]
        /\ ValueAt(product, c) = <<multiplier.elements[c]>>

\* the k for which A[i,k] and B[k,j] are both stored
CommonInner(A, B, i, j) ==
    {k \in 0..(A.size[2] - 1) : <<i, k>> \in Stored(A) /\ <<k, j>> \in Stored(B)}

\* the plus-times sum of the products over an inner dimension of two
PlusTimesAt(A, B, i, j) ==
    LET term(k) == IF k \in CommonInner(A, B, i, j)
                   THEN A.elements[<<i, k>>] * B.elements[<<k, j>>]
                   ELSE 0
    IN  term(0) + term(1)

\* a vector read as a matrix of one column
ColumnMatrix(u) ==
    [size |-> <<u.size[1], 1>>,
     elements |-> [c \in {<<d[1], 0>> : d \in Stored(u)} |-> u.elements[<<c[1]>>]]]

NoTranspose == ~last.options.transpose_first /\ ~last.options.transpose_second

\* C6: the multiplication appliers compute the semiring product: the entry at
\* (i,j) is the semiring-add, over the k for which A[i,k] and B[k,j] are both
\* stored, of multiply(A[i,k], B[k,j]), and there is no entry where there is
\* no such k; under plus-times [[1,3],[2,4]] times [[5,7],[6,8]] gives
\* 23, 31, 34, 46 and [[5,7],[6,8]] times [1,2] gives [19,22].  (Operands as
\* given: no transpose requested.)
C6_SemiringProduct ==
    /\ (family = "matrix_multiplication" /\ Succeeded /\ NoTranspose) =>
        /\ \A i \in 0..(multiplier.size[1] - 1), j \in 0..(multiplicant.size[2] - 1) :
            ValueAt([elements |-> computed], <<i, j>>) =
                IF CommonInner(multiplier, multiplicant, i, j) = {}
                THEN <<>>
                ELSE <<PlusTimesAt(multiplier, multiplicant, i, j)>>
        /\ (multiplier = MultiplierMatrix /\ multiplicant = MultiplicantMatrix)
           => computed = SparseMatrix_from_element_list(<<<<23, 31>>, <<34, 46>>>>).elements
    /\ (family = "matrix_vector_multiplication" /\ Succeeded /\ NoTranspose) =>
        /\ \A i \in 0..(multiplier.size[1] - 1) :
            ValueAt([elements |-> computed], <<i>>) =
                IF CommonInner(multiplier, ColumnMatrix(multiplicant), i, 0) = {}
                THEN <<>>
                ELSE <<PlusTimesAt(multiplier, ColumnMatrix(multiplicant), i, 0)>>
        /\ (multiplier = MultiplicantMatrix /\ multiplicant = MultiplierVector)
           => computed = SparseVector_from_element_list(<<19, 22>>).elements

\* the matrix example, written into the output with Assignment
C6_Witness ==
    /\ family = "matrix_multiplication" /\ Succeeded /\ Unmasked /\ NoTranspose
    /\ multiplier = MultiplierMatrix /\ multiplicant = MultiplicantMatrix
    /\ last.accumulator = "Assignment"
    /\ product = SparseMatrix_from_element_list(<<<<23, 31>>, <<34, 46>>>>)

ExplicitSelector == selection.indices_to_extract.selector = "Index"

Selector == selection.indices_to_extract.indices

TargetColumn == selection.column_index_to_extract

\* C7: column extraction with an explicit list of row indices and column j
\* computes a vector whose i-th entry is the source's entry at
\* (selector[i], j) for every i below the length of the list, absent where
\* the source has none; column 0 holding [1,2,3] with selector [0,2] gives
\* the vector [1,3] with 2 stored elements.
C7_ExtractsSelectedRows ==
    (family = "column_extraction" /\ ExplicitSelector /\ Succeeded) =>
        /\ \A i \in 0..(Len(Selector) - 1) :
            ValueAt([elements |-> computed], <<i>>) =
                ValueAt(multiplier, <<Selector[i + 1], TargetColumn>>)
        /\ DOMAIN computed \subseteq {<<i>> : i \in 0..(Len(Selector) - 1)}

\* the example, written into an output of length 2 with Assignment
C7_Witness ==
    /\ family = "column_extraction" /\ Succeeded /\ Unmasked
    /\ multiplier = SourceMatrix
    /\ Selector = <<0, 2>> /\ ExplicitSelector /\ TargetColumn = 0
    /\ last.accumulator = "Assignment"
    /\ product = SparseVector_from_element_list(<<1, 3>>)
    /\ number_of_stored_elements(product) = Len(Selector)

RowIndexOutOfBounds ==
    /\ ExplicitSelector
    /\ \E n \in 1..Len(Selector) : Selector[n] >= multiplier.size[1]

\* C8 as stated: column extraction returns IndexOutOfBounds whenever a row
\* index of the explicit selector is greater than or equal to the source's
\* row count.
C8_AsStated ==
    (family = "column_extraction" /\ last.method = "apply" /\ RowIndexOutOfBounds) =>
        last.result = "IndexOutOfBounds"

\* the output has as many places as the selector has indices, and the mask,
\* if there is one, has the output's size
DimensionsFit ==
    /\ product.size = <<Len(Selector)>>
    /\ Masked => mask.size = product.size

\* C8, amended: when a row index of the explicit selector is greater than or
\* equal to the source's row count, column extraction returns an error and
\* never Ok: IndexOutOfBounds when the dimensions of output and mask fit the
\* call, IndexOutOfBounds or DimensionMismatch when they do not.
C8_IndexOutOfBounds ==
    (family = "column_extraction" /\ last.method = "apply" /\ RowIndexOutOfBounds) =>
        /\ last.result \in {"IndexOutOfBounds", "DimensionMismatch"}
        /\ DimensionsFit => last.result = "IndexOutOfBounds"

\* an extraction whose selector holds a valid index and the row count
\* returned the error and left the output alone
C8_Witness ==
    /\ family = "column_extraction" /\ last.method = "apply"
    /\ ExplicitSelector /\ Selector = <<0, multiplier.size[1]>>
    /\ DimensionsFit
    /\ last.result = "IndexOutOfBounds"
    /\ product = previous

UnaryFamily == family \in {"unary_vector", "unary_matrix"}

DefaultOptions == last.options = OperatorOptions_new_default

\* C10: with an explicit mask and default options, apply_with_mask writes at
\* a coordinate only if the mask stores a value there that casts to true: a
\* stored 0 blocks the write as an absent entry does, a non-zero value
\* permits it (on a write, Assignment stores the computed value).
C10_MaskValueGatesWrite ==
    (Masked /\ DefaultOptions /\ Succeeded) =>
        \A c \in Coordinates(product.size) :
            /\ ValueAt(product, c) # ValueAt(previous, c) => CastsToTrue(c)
            /\ (CastsToTrue(c) /\ last.accumulator = "Assignment")
               => ValueAt(product, c) = ComputedAt(c)

\* the mask (0,3), (1,0), (3,1) of the test: 5 and 32 written at 0 and 3,
\* nothing at 1 where the mask stores 0 nor at 2 where it stores nothing
C10_Witness ==
    /\ Masked /\ DefaultOptions /\ Succeeded
    /\ mask.elements = (<<0>> :> 3) @@ (<<1>> :> 0) @@ (<<3>> :> 1)
    /\ computed = SparseVector_from_element_list(<<5, 12, 21, 32>>).elements
    /\ product.elements = (<<0>> :> 5) @@ (<<3>> :> 32)

\* would the explicit mask let the latest call write at c, were the
\* complement flag unset
WritableUncomplemented(c) ==
    IF last.options.structural THEN c \in Stored(mask) ELSE CastsToTrue(c)

\* what a call leaves at a coordinate it may write: the computed value
\* through the accumulator
AccumulatedAt(c) ==
    IF c \in DOMAIN computed
    THEN IF last.accumulator = "Assignment" \/ c \notin Stored(previous)
         THEN ComputedAt(c)
         ELSE <<AsStored(EvaluateBinaryOperator(last.accumulator,
                            previous.elements[c], computed[c]))>>
    ELSE IF last.accumulator = "Assignment" THEN <<>> ELSE ValueAt(previous, c)

\* what a call leaves at a coordinate it may not write
BlockedAt(c) == IF last.options.replace THEN <<>> ELSE ValueAt(previous, c)

\* C11: with the complement-mask flag set, apply_with_mask writes exactly at
\* the coordinates that the same mask would not let it write with the flag
\* unset, and is blocked exactly at those it would.
C11_ComplementInvertsMask ==
    (Masked /\ Succeeded) =>
        \A c \in Coordinates(product.size) :
            /\ ~last.options.complement =>
                ValueAt(product, c) =
                    IF WritableUncomplemented(c) THEN AccumulatedAt(c) ELSE BlockedAt(c)
            /\ last.options.complement =>
                ValueAt(product, c) =
                    IF WritableUncomplemented(c) THEN BlockedAt(c) ELSE AccumulatedAt(c)

\* a complemented matrix multiplication kept the entry where the mask casts
\* to true and wrote the product where the mask stores nothing
C11_Witness ==
    /\ family = "matrix_multiplication" /\ Masked /\ Succeeded
    /\ last.options.complement /\ ~last.options.replace /\ ~last.options.structural
    /\ last.accumulator = "Assignment"
    /\ \E c \in Stored(previous) \cap DOMAIN computed :
        /\ CastsToTrue(c)
        /\ computed[c] # previous.elements[c]
        /\ ValueAt(product, c) = ValueAt(previous, c)
    /\ \E c \in DOMAIN computed :
        /\ c \notin Stored(mask)
        /\ ValueAt(product, c) = <<computed[c]>>
        /\ ValueAt(previous, c) # <<computed[c]>>

WithMaskMethod ==
    last.method \in {"apply_with_mask", "apply_to_vector_with_mask", "apply_to_matrix_with_mask"}

MaskMismatch == Masked /\ mask.size # product.size

\* C12: an apply_with_mask call whose mask has other dimensions than the
\* output returns DimensionMismatch.  (The column extractor, whose apply
\* takes the mask as an argument, returns DimensionMismatch as well unless a
\* selected row index is out of bounds, when it returns one of the two
\* errors.)
C12_MaskDimensionMismatch ==
    /\ (WithMaskMethod /\ MaskMismatch) => last.result = "DimensionMismatch"
    /\ (family = "column_extraction" /\ MaskMismatch) =>
        /\ last.result \in {"DimensionMismatch", "IndexOutOfBounds"}
        /\ ~RowIndexOutOfBounds => last.result = "DimensionMismatch"

\* a masked matrix multiplication with a 3x2 mask on a written 2x2 output
\* returned the error and left the output alone
C12_Witness ==
    /\ family = "matrix_multiplication" /\ WithMaskMethod /\ MaskMismatch
    /\ last.result = "DimensionMismatch"
    /\ number_of_stored_elements(previous) > 0
    /\ product = previous

\* where the entry (i,k) of the first operand of the product is stored in the
\* multiplier, and the entry (k,j) of the second in the multiplicant
InMultiplier(i, k) == IF last.options.transpose_first THEN <<k, i>> ELSE <<i, k>>

InMultiplicant(k, j) == IF last.options.transpose_second THEN <<j, k>> ELSE <<k, j>>

TransposedInner(i, j) ==
    {k \in 0..1 : InMultiplier(i, k) \in Stored(multiplier)
                    /\ InMultiplicant(k, j) \in Stored(multiplicant)}

TransposedPlusTimesAt(i, j) ==
    LET term(k) == IF k \in TransposedInner(i, j)
                   THEN multiplier.elements[InMultiplier(i, k)]
                            * multiplicant.elements[InMultiplicant(k, j)]
                   ELSE 0
    IN  term(0) + term(1)

\* the result of a matrix multiplication is the plus-times product of the
\* operands, each read transposed when its flag is set
TransposedProductComputed ==
    (family = "matrix_multiplication" /\ Succeeded) =>
        \A i \in 0..1, j \in 0..1 :
            ValueAt([elements |-> computed], <<i, j>>) =
                IF TransposedInner(i, j) = {}
                THEN <<>>
                ELSE <<TransposedPlusTimesAt(i, j)>>

\* C17: a matrix multiplication applier built with transpose-first-operand
\* (transpose-second-operand) computes in every apply the semiring product of
\* the transposed first (second) operand with the other operand, and no apply
\* changes the operand collections.
C17_TransposeBeforeMultiplication ==
    [][/\ multiplier' = multiplier
       /\ multiplicant' = multiplicant
       /\ TransposedProductComputed']_vars

\* [[1,3],[2,4]] transposed times [[5,7],[6,8]] is [[17,23],[39,53]]; the
\* multiplier is still [[1,3],[2,4]]
C17_Witness ==
    /\ family = "matrix_multiplication" /\ Succeeded
    /\ last.options.transpose_first /\ ~last.options.transpose_second
    /\ multiplier = MultiplierMatrix /\ multiplicant = MultiplicantMatrix
    /\ computed = SparseMatrix_from_element_list(<<<<17, 23>>, <<39, 53>>>>).elements

Retained(c) == ValueAt(product, c) = ValueAt(previous, c)

\* under default options the multiplications take their operands as given
DefaultLeavesOperandsUntransposed ==
    /\ family = "matrix_multiplication" =>
        \A i \in 0..(multiplier.size[1] - 1), j \in 0..(multiplicant.size[2] - 1) :
            (<<i, j>> \in DOMAIN computed) = (CommonInner(multiplier, multiplicant, i, j) # {})
    /\ family = "matrix_vector_multiplication" =>
        \A i \in 0..(multiplier.size[1] - 1) :
            <<i>> \in DOMAIN computed =>
                computed[<<i>>] = PlusTimesAt(multiplier, ColumnMatrix(multiplicant), i, 0)
    /\ family = "matrix_multiplication" =>
        \A c \in DOMAIN computed :
            computed[c] = PlusTimesAt(multiplier, multiplicant, c[1], c[2])

\* C18 as stated: with default options no operand is transposed, the mask is
\* used without complement, and every output entry at a coordinate that the
\* call is not allowed to write (the mask blocks it) or not caused to write
\* (nothing is computed there) is retained.
C18_AsStated ==
    (DefaultOptions /\ Succeeded) =>
        /\ DefaultLeavesOperandsUntransposed
        /\ \A c \in Coordinates(product.size) :
            /\ (Masked /\ ~CastsToTrue(c)) => Retained(c)
            /\ c \notin DOMAIN computed => Retained(c)

\* C18, amended: with default options no operand is transposed, the mask is
\* used without complement, and an output entry is retained where the mask
\* blocks the write, and where nothing is computed provided the accumulator
\* is not Assignment; with Assignment a coordinate the call may write and
\* computes nothing for holds no entry afterwards.
C18_DefaultOptions ==
    (DefaultOptions /\ Succeeded) =>
        /\ DefaultLeavesOperandsUntransposed
        /\ \A c \in Coordinates(product.size) :
            /\ (Masked /\ ~CastsToTrue(c)) => Retained(c)
            /\ (c \notin DOMAIN computed /\ last.accumulator # "Assignment") => Retained(c)
            /\ (/\ c \notin DOMAIN computed
                /\ last.accumulator = "Assignment"
                /\ Masked => CastsToTrue(c))
               => c \notin Stored(product)

\* a masked unary map under default options kept an entry the mask blocks,
\* for which it had computed another value, and dropped an entry the mask
\* lets it write, for which it had computed nothing
C18_Witness ==
    /\ family = "unary_matrix" /\ DefaultOptions /\ Succeeded /\ Masked
    /\ last.accumulator = "Assignment"
    /\ \E c \in Stored(previous) \cap DOMAIN computed :
        ~CastsToTrue(c) /\ computed[c] # previous.elements[c] /\ Retained(c)
    /\ \E c \in Stored(previous) \ DOMAIN computed :
        CastsToTrue(c) /\ c \notin Stored(product)

\* a source of u16 values extracted into an output of u8 values
NarrowingExtraction ==
    /\ family = "column_extraction" /\ ExplicitSelector
    /\ IsTyped(multiplier) /\ multiplier.value_type = "u16"
    /\ IsTyped(product) /\ product.value_type = "u8"

\* C20: column extraction from a u16 matrix into a u8 vector (Assignment
\* accumulator) stores each extracted value cast to u8, that is modulo 256,
\* and stores every source value that fits in u8 unchanged.
C20_ExtractionCastsToOutputType ==
    (NarrowingExtraction /\ Unmasked /\ Succeeded /\ last.accumulator = "Assignment") =>
        \A i \in 0..(Len(Selector) - 1) :
            LET source == <<Selector[i + 1], TargetColumn>>
            IN  IF source \in Stored(multiplier)
                THEN /\ <<i>> \in Stored(product)
                     /\ product.elements[<<i>>] \in 0..255
                     /\ product.elements[<<i>>] = multiplier.elements[source] % 256
                     /\ multiplier.elements[source] <= 255 =>
                            product.elements[<<i>>] = multiplier.elements[source]
                ELSE <<i>> \notin Stored(product)

\* 256 and 255 were extracted as 0 and 255
C20_Witness ==
    /\ NarrowingExtraction /\ Unmasked /\ Succeeded /\ last.accumulator = "Assignment"
    /\ Selector = <<1, 0>> /\ TargetColumn = 0
    /\ multiplier.elements = WideSourceMatrix.elements
    /\ product.elements = SparseVector_from_element_list(<<0, 255>>).elements

(***************************************************************************)
(* Properties of the appliers over the engine that can fail.               *)
(***************************************************************************)
\* the structured error of the gateway for each status family of the engine
StructuredError(status) ==
    CASE status = "GrB_DOMAIN_MISMATCH" -> "DomainMismatch"
      [] status = "GrB_DIMENSION_MISMATCH" -> "DimensionMismatch"
      [] status = "GrB_OUT_OF_MEMORY" -> "OutOfMemory"
      [] status = "GrB_INDEX_OUT_OF_BOUNDS" -> "IndexOutOfBounds"
      [] status \in {"GrB_UNINITIALIZED_OBJECT", "GrB_INVALID_OBJECT", "GrB_NULL_POINTER"} ->
            "InvalidOrUninitializedHandle"

\* C13: every apply returns Ok exactly when its engine call reported success
\* through the gateway, and otherwise returns the structured error of the
\* status the engine call reported: no failure is swallowed.
C13_OkExactlyOnEngineSuccess ==
    last.method # "none" =>
        /\ Succeeded <=> last.status = "GrB_SUCCESS"
        /\ ~Succeeded => last.result = StructuredError(last.status)

C13_Witness ==
    /\ last.method = "apply_to_vector"
    /\ last.status = "GrB_OUT_OF_MEMORY"
    /\ last.result = "OutOfMemory"
    /\ penultimate.method = "apply_to_vector"
    /\ penultimate.result = "Ok"

\* the output holds what the documented coordinate selection and accumulation
\* give: the accumulated value where the call may write, the blocked value
\* elsewhere
OutputMatchesSemantics ==
    \A c \in Coordinates(product.size) :
        ValueAt(product, c) =
            IF Unmasked \/ Writable(c) THEN AccumulatedAt(c) ELSE BlockedAt(c)

\* the wrapper wrote nothing of its own: the output is as the engine call left it
OutputAsEngineLeftIt == product = last.left

\* the latest call returned with its work deferred by the engine
WorkDeferred == last.method # "none" /\ last.pending # "none"

PreconditionErrors == {"GrB_DIMENSION_MISMATCH", "GrB_INDEX_OUT_OF_BOUNDS"}

\* the step is an apply call
CallStep == calls' = calls + 1

\* An apply call made while the engine cannot do the work reports the error
\* itself, or (non-blocking mode only) returns Ok and leaves it deferred.
ErrorReportedOrDeferred ==
    (CallStep /\ engine.pending = "none" /\ engine.fault # "none"
        /\ last'.status \notin PreconditionErrors) =>
            \/ last'.status = engine.fault /\ engine'.pending = "none"
            \/ /\ engine.mode = "NonBlocking"
               /\ last'.status = "GrB_SUCCESS"
               /\ engine'.pending = engine.fault

\* A deferred error stays deferred until the next call that synchronizes
\* with the engine returns it, or the program drops the Context.
DeferredErrorKept ==
    engine.pending # "none" =>
        \/ engine'.pending = engine.pending /\ (CallStep => last'.status \in PreconditionErrors)
        \/ CallStep /\ last'.status = engine.pending /\ engine'.pending = "none"
        \/ ~engine'.live

\* An apply returns with the status of the engine call it issued.
ReturnsAfterEngineCall ==
    CallStep => last'.status # "none" /\ last'.result = ContextCall(last'.status)

ErrorLocality ==
    /\ ErrorReportedOrDeferred
    /\ engine.mode = "Blocking" => engine'.pending = "none"
    /\ DeferredErrorKept
    /\ ReturnsAfterEngineCall

\* C19 as stated: in blocking mode an engine error is reported by the call
\* that caused it; in non-blocking mode by that call or by the next later
\* call that synchronizes with the engine; each call returns only after its
\* engine call returned; and every engine error is eventually returned by
\* some call.
C19_AsStated ==
    /\ [][ErrorLocality]_vars
    /\ (engine.pending # "none") ~> (last.status \in EngineFaults)

\* C19 amended: as stated, but a deferred error is returned only if the
\* program makes a later call that synchronizes with the engine: until then
\* it stays deferred, and it is gone when the Context is dropped first.
C19_ErrorReportedOrKeptDeferred == [][ErrorLocality]_vars

\* a matrix multiplication returned the error that the call before it had
\* caused and the engine had deferred
C19_Witness ==
    /\ family = "matrix_multiplication"
    /\ engine.mode = "NonBlocking"
    /\ penultimate.result = "Ok"
    /\ penultimate.pending = "GrB_OUT_OF_MEMORY"
    /\ last.method = "apply"
    /\ last.result = "OutOfMemory"
    /\ engine.pending = "none"

(***************************************************************************)
(* Properties of the parallel calls.                                       *)
(***************************************************************************)
AllThreadsDone == pc # <<>> /\ \A t \in Threads : pc[t].at = "done"

\* the result of the call of thread t at a coordinate: the applier's operator
\* on the entry of the thread's matrix with itself
PerCallResultAt(t, c) ==
    EvaluateBinaryOperator(constructed.multiplication_operator,
        matrices[t].elements[c], matrices[t].elements[c])

ThreadsStoring(c) == {t \in Threads : c \in Stored(matrices[t])}

RECURSIVE SumOfPerCallResults(_, _)
SumOfPerCallResults(threads, c) ==
    IF threads = {}
    THEN 0
    ELSE LET t == CHOOSE t \in threads : TRUE
         IN  PerCallResultAt(t, c) + SumOfPerCallResults(threads \ {t}, c)

\* C15: when every thread has applied the shared applier, whose accumulator
\* is Plus, into the shared output under the lock, the output holds at every
\* coordinate the sum of the per-call results, whatever the order in which
\* the threads ran.
C15_SharedOutputHoldsSum ==
    (AllThreadsDone /\ constructed.accumulator = "Plus") =>
        \A c \in Coordinates(matrix_size) :
            ValueAt(result_matrix.data, c) =
                IF ThreadsStoring(c) = {}
                THEN <<>>
                ELSE <<SumOfPerCallResults(ThreadsStoring(c), c)>>

\* the test: every matrix holds 3 at (1,2), operator and accumulator are
\* Plus, and the output holds the per-call result 6 once per thread
C15_Witness ==
    /\ AllThreadsDone
    /\ constructed.accumulator = "Plus"
    /\ constructed.multiplication_operator = "Plus"
    /\ \A t \in Threads : matrices[t] = WithElement(<<1, 2, 3>>)
    /\ ValueAt(result_matrix.data, <<1, 2>>) = <<NumberOfMatrices * 6>>

\* C16: the operator, the accumulator and the options of the shared applier
\* are in every state those its constructor set, whichever threads have
\* called apply or apply_with_mask on it.
C16_HandlesFixedAtConstruction ==
    pc # <<>> =>
        /\ element_wise_matrix_add_operator.multiplication_operator =
                constructed.multiplication_operator
        /\ element_wise_matrix_add_operator.accumulator = constructed.accumulator
        /\ element_wise_matrix_add_operator.options = constructed.options

\* all threads have used the applier, which was built with the Plus accumulator
C16_Witness ==
    /\ AllThreadsDone
    /\ Stored(result_matrix.data) # {}
    /\ constructed.accumulator = "Plus"
    /\ element_wise_matrix_add_operator.accumulator = "Plus"
    /\ element_wise_matrix_add_operator.multiplication_operator = "Times"

(***************************************************************************)
(* Further properties of the appliers.                                     *)
(***************************************************************************)
BinaryFamily ==
    family \in {"element_wise_vector_addition", "element_wise_matrix_multiplication",
                "matrix_multiplication", "matrix_vector_multiplication"}

EmptyOperands == Stored(multiplier) = {} /\ Stored(multiplicant) = {}

\* C22: element-wise addition, element-wise multiplication, matrix-matrix and
\* matrix-vector multiplication, applied with the Assignment accumulator to
\* operands without stored elements into an empty output, leave the output
\* without stored elements.
C22_EmptyOperandsGiveEmptyOutput ==
    (/\ BinaryFamily
     /\ last.method # "none"
     /\ Succeeded
     /\ last.accumulator = "Assignment"
     /\ EmptyOperands
     /\ Stored(previous) = {}) =>
        Stored(product) = {}

\* an element-wise addition of two empty vectors through a mask that stores
\* entries left the empty output empty
C22_Witness ==
    /\ family = "element_wise_vector_addition"
    /\ last.method = "apply_with_mask"
    /\ Succeeded
    /\ last.accumulator = "Assignment"
    /\ EmptyOperands
    /\ Stored(mask) # {}
    /\ Stored(previous) = {}
    /\ Stored(product) = {}

\* the latest two calls were the same unmasked apply of the same applier with
\* the Assignment accumulator, and both succeeded
AssignmentTwice ==
    /\ penultimate.method # "none"
    /\ penultimate.method = last.method
    /\ ~penultimate.masked /\ ~last.masked
    /\ penultimate.accumulator = "Assignment" /\ last.accumulator = "Assignment"
    /\ penultimate.operator = last.operator
    /\ penultimate.result = "Ok" /\ last.result = "Ok"

\* C30: with the Assignment accumulator, no mask and unchanged operands the
\* second apply of the same applier leaves the output exactly as the first
\* apply left it.
C30_AssignmentIsIdempotent == AssignmentTwice => product = previous

\* the logical negation was applied twice to a matrix into an output that
\* held other values before the first apply
C30_Witness ==
    /\ family = "unary_matrix"
    /\ AssignmentTwice
    /\ last.operator = "LogicalNegation"
    /\ Stored(multiplier) # {}
    /\ product = previous
    /\ \E c \in Stored(product) : product.elements[c] # 9

\* the step repeats the latest call: same method, same operator, both
\* returning Ok
RepeatedCall ==
    /\ CallStep
    /\ last.method # "none"
    /\ last'.method = last.method
    /\ last'.operator = last.operator
    /\ last.result = "Ok" /\ last'.result = "Ok"

OperandsKept ==
    /\ multiplier' = multiplier
    /\ multiplicant' = multiplicant
    /\ mask' = mask
    /\ RepeatedCall => computed' = computed

\* C28: no apply or apply_with_mask, successful or failed, changes its
\* operands or its mask, and a repeated call on them computes the same
\* result.
C28_OperandsUnchanged == [][OperandsKept]_vars

\* after a failed and a successful element-wise addition the operands and
\* the mask are the collections the run began with
C28_Witness ==
    /\ family = "element_wise_vector_addition"
    /\ penultimate.result = "OutOfMemory"
    /\ last.result = "Ok"
    /\ last.masked
    /\ DOMAIN computed # {}
    /\ multiplier = MultiplierVector
    /\ multiplicant = MultiplicantVector
    /\ mask = MaskVector

\* an explicit mask of the given dimensions that stores at every coordinate
\* a value that casts to true
AllTrueMask(size) == [size |-> size, elements |-> [c \in Coordinates(size) |-> 1]]

\* for the applier of the run: apply and apply_with_mask under an all-true
\* mask return the same and leave the same in the output
SelectAllAsAllTrueMask(all_true) ==
    CASE family = "element_wise_vector_addition" ->
            \A operator \in BinaryOperators, accumulator \in Accumulators :
                LET self == ElementWiseVectorAdditionBinaryOperator_new(operator, options, accumulator)
                IN  ElementWiseVectorAddition_apply(self, multiplier, multiplicant, product) =
                    ElementWiseVectorAddition_apply_with_mask(self, all_true, multiplier, multiplicant, product)
      [] family = "element_wise_matrix_multiplication" ->
            \A operator \in BinaryOperators, accumulator \in Accumulators :
                LET self == ElementWiseMatrixMultiplicationBinaryOperator_new(operator, options, accumulator)
                IN  ElementWiseMatrixMultiplication_apply(self, multiplier, multiplicant, product) =
                    ElementWiseMatrixMultiplication_apply_with_mask(self, all_true, multiplier, multiplicant, product)
      [] family = "matrix_multiplication" ->
            \A accumulator \in Accumulators :
                LET self == MatrixMultiplicationOperator_new(PlusTimes, options, accumulator)
                IN  MatrixMultiplication_apply(self, multiplier, multiplicant, product) =
                    MatrixMultiplication_apply_with_mask(self, all_true, multiplier, multiplicant, product)
      [] family = "matrix_vector_multiplication" ->
            \A accumulator \in Accumulators :
                LET self == MatrixVectorMultiplicationOperator_new(PlusTimes, options, accumulator)
                IN  MatrixVectorMultiplication_apply(self, multiplier, multiplicant, product) =
                    MatrixVectorMultiplication_apply_with_mask(self, all_true, multiplier, multiplicant, product)
      [] family = "unary_vector" ->
            \A operator \in UnaryOperators, accumulator \in Accumulators :
                LET self == UnaryOperatorApplier_new(operator, options, accumulator)
                IN  UnaryOperatorApplier_apply_to_vector(self, multiplier, product) =
                    UnaryOperatorApplier_apply_to_vector_with_mask(self, multiplier, product, all_true)
      [] family = "unary_matrix" ->
            \A operator \in UnaryOperators, accumulator \in Accumulators :
                LET self == UnaryOperatorApplier_new(operator, options, accumulator)
                IN  UnaryOperatorApplier_apply_to_matrix(self, multiplier, product) =
                    UnaryOperatorApplier_apply_to_matrix_with_mask(self, multiplier, product, all_true)
      [] family = "column_extraction" ->
            \A accumulator \in AccumulatorsInto(product) :
                MatrixColumnExtractor_apply(multiplier, selection.column_index_to_extract,
                    selection.indices_to_extract, accumulator, product, SelectEntireVector, options) =
                MatrixColumnExtractor_apply(multiplier, selection.column_index_to_extract,
                    selection.indices_to_extract, accumulator, product, all_true, options)

\* C25: for every applier, all operands and options, and the output as
\* constructed or as a first call left it, apply without a mask returns the same and leaves the output in the same
\* state as apply_with_mask under an explicit mask of the output's
\* dimensions in which every coordinate holds a value that casts to true.
C25_SelectAllIsAllTrueMask ==
    calls <= 1 => SelectAllAsAllTrueMask(AllTrueMask(product.size))

\* an unmasked element-wise addition with the Plus accumulator wrote into a
\* filled output, and from the output it left the two ways of calling agree
C25_Witness ==
    /\ family = "element_wise_vector_addition"
    /\ last.method = "apply"
    /\ Succeeded
    /\ last.accumulator = "Plus"
    /\ Stored(previous) # {}
    /\ Stored(multiplier) # {} /\ Stored(multiplier) # Coordinates(product.size)
    /\ product # previous
    /\ calls = 1
    /\ SelectAllAsAllTrueMask(AllTrueMask(product.size))

\* the parameter of the latest call that is its output collection
OutputParameter == IF family = "column_extraction" THEN "column_vector" ELSE "product"

\* C29 as stated: for every applier the engine call goes through the
\* Context held by the output collection of the call, and the handle kept
\* for the diagnostics is that of the same output collection.
C29_AsStated ==
    last.method # "none" =>
        /\ last.context_of = OutputParameter
        /\ last.failed_output = OutputParameter

\* C29 amended: for every applier the handle kept for the diagnostics is
\* that of the output collection; the engine call goes through the Context
\* held by the output collection for the element-wise and the multiplication
\* appliers, by the argument for the unary applier, and by the source matrix
\* for the column extractor.
C29_ContextAndDiagnosticsHandle ==
    last.method # "none" =>
        /\ last.failed_output = OutputParameter
        /\ BinaryFamily => last.context_of = "product"
        /\ UnaryFamily => last.context_of = "argument"
        /\ family = "column_extraction" => last.context_of = "matrix_to_extract_from"

\* a unary map on a vector went through the Context of its argument, and a
\* failed one before it kept the product as the handle for the diagnostics
C29_Witness ==
    /\ family = "unary_vector"
    /\ last.method = "apply_to_vector"
    /\ Succeeded
    /\ last.context_of = "argument"
    /\ last.failed_output = "product"
    /\ penultimate.method = "apply_to_vector_with_mask"
    /\ penultimate.result = "DimensionMismatch"
    /\ penultimate.context_of = "argument"
    /\ penultimate.failed_output = "product"

(***************************************************************************)
(* Inputs that do not all convert: the appliers over a failing engine, and *)
(* the column extraction with every combination of failing conversions.    *)
(***************************************************************************)
ConversionOperands ==
    /\ family = "column_extraction"
    /\ multiplier = SourceMatrix
    /\ multiplicant = EmptyCollection(<<2>>)
    /\ selection \in [indices_to_extract : {ElementIndexSelector_All,
                                            ElementIndexSelector_Index(<<0, 2>>)},
                      column_index_to_extract : {0, 1}]
    /\ mask = MaskVector
    /\ product \in Outputs(<<2>>) \cup Outputs(<<3>>)

ConversionInit ==
    /\ \/ /\ FaultOperands
          /\ failing = {}
          /\ engine \in Engines
       \/ /\ ConversionOperands
          /\ failing \in SUBSET {Conversions[n] : n \in 1..Len(Conversions)}
          /\ engine \in {Context_init_ready(mode) : mode \in {"Blocking", "NonBlocking"}}
    /\ options = OperatorOptions_new_default
    /\ previous = product
    /\ computed = [c \in {} |-> 0]
    /\ last = NoCallOf(family)
    /\ penultimate = NoCallOf(family)
    /\ calls = 0
    /\ NoThreads

ConversionSpec == ConversionInit /\ [][Next]_vars

\* a step of the latest extraction failed: one of the conversions, or the
\* reading of the row count that only the selector All needs
ConversionFailed ==
    \E step \in failing :
        step = "row_height" => selection.indices_to_extract.selector = "All"

\* C27: in a column extraction, when reading the source's row count or
\* converting the index count, the selector or the column index fails, apply
\* returns that error, no engine call was issued and the output vector is as
\* it was before the call.
C27_FailedConversionIssuesNoCall ==
    (family = "column_extraction" /\ last.method = "apply" /\ ConversionFailed) =>
        /\ last.result \in failing
        /\ last.issued = <<>>
        /\ product = previous

\* the row count of a non-empty source could not be read for the selector
\* All: the second apply returned the error and left the stored output alone
C27_Witness ==
    /\ family = "column_extraction"
    /\ calls = 2
    /\ selection.indices_to_extract.selector = "All"
    /\ failing = {"row_height"}
    /\ last.result = "row_height"
    /\ last.issued = <<>>
    /\ product = previous
    /\ DOMAIN product.elements # {}
    /\ DOMAIN multiplier.elements # {}

\* the single engine call the latest extraction issued
IssuedExtraction == last.issued[1]

\* C26: in a column extraction the number of indices passed to the engine is
\* the length of the list for an explicit selector and the row count of the
\* source for the selector 'every row'; with 'every row' the computed vector
\* has, for every row i of the source, the source's entry at
\* (i, target column), and with Assignment and no mask that is the output.
C26_NumberOfIndicesAndEveryRow ==
    (family = "column_extraction" /\ last.method = "apply") =>
        /\ Len(last.issued) = 1
        /\ IssuedExtraction.entry_point = "GrB_Col_extract"
        /\ ExplicitSelector => IssuedExtraction.number_of_indices = Len(Selector)
        /\ ~ExplicitSelector => IssuedExtraction.number_of_indices = multiplier.size[1]
        /\ (~ExplicitSelector /\ Succeeded) =>
            /\ \A i \in 0..(multiplier.size[1] - 1) :
                ValueAt([elements |-> computed], <<i>>) =
                    ValueAt(multiplier, <<i, TargetColumn>>)
            /\ DOMAIN computed \subseteq {<<i>> : i \in 0..(multiplier.size[1] - 1)}
            /\ (Unmasked /\ last.accumulator = "Assignment") =>
                    product.elements = computed

\* every row of the second column of a source with a missing entry went into
\* an output of the source's height, and three indices were announced
C26_Witness ==
    /\ family = "column_extraction" /\ Succeeded /\ Unmasked
    /\ ~ExplicitSelector
    /\ TargetColumn = 1
    /\ multiplier = WithoutLast(SourceMatrix)
    /\ last.accumulator = "Assignment"
    /\ IssuedExtraction.number_of_indices = 3
    /\ product.size = <<3>>
    /\ number_of_stored_elements(product) = 2
    /\ ValueAt(product, <<1>>) = ValueAt(multiplier, <<1, 1>>)
    /\ previous # product

\* the engine calls the latest apply issued through the gateway
EngineCallsIssued == Len(last'.issued)

\* C23 as stated: every apply and apply_with_mask issues exactly one engine
\* call and returns only after that call returned, with the status of that
\* call.
C23_AsStated ==
    [][CallStep =>
        /\ EngineCallsIssued = 1
        /\ last'.result = ContextCall(last'.status)]_vars

\* C23: every apply and apply_with_mask issues at most one engine call and
\* returns only after it returned: exactly one, whose status is the Result
\* of the apply, whether it succeeded or failed, unless a conversion of a
\* column extraction failed first, and then none, with the engine untouched.
C23_OneEngineCallPerApply ==
    [][CallStep =>
        /\ EngineCallsIssued =
                (IF family = "column_extraction" /\ ConversionFailed THEN 0 ELSE 1)
        /\ EngineCallsIssued = 1 =>
                /\ last'.status # "none"
                /\ last'.result = ContextCall(last'.status)
        /\ EngineCallsIssued = 0 =>
                /\ last'.status = "none"
                /\ engine' = engine]_vars

\* an addition failed for lack of memory and the caller, not the applier,
\* tried again: two applies, one engine call each
C23_Witness ==
    /\ family = "element_wise_vector_addition"
    /\ calls = 2
    /\ penultimate.method = "apply" /\ penultimate.result = "OutOfMemory"
    /\ Len(penultimate.issued) = 1
    /\ last.method = "apply" /\ last.result = "OutOfMemory"
    /\ Len(last.issued) = 1

\* thread t is inside its engine call
InEngineCall(t) == pc[t].at = "applying"

\* thread t holds the guard of the Mutex
HoldsLock(t) == pc[t].at \in {"locked", "applying", "applied"}

\* C24: when every apply writing the shared output is made while holding the
\* output's exclusive lock, no two engine calls writing that output are in
\* progress at the same time, and the output a thread's apply works on is
\* the output as the latest completed apply left it: nobody writes it while
\* the call is in progress.
C24_SharedOutputSerialized ==
    family = "parallel_calls_to_graphblas" =>
        /\ \A t \in Threads, u \in Threads :
                (InEngineCall(t) /\ InEngineCall(u)) => t = u
        /\ \A t \in Threads : HoldsLock(t) => result_matrix.locked_by = t
        /\ \A t \in Threads : InEngineCall(t) => pc[t].output = result_matrix.data

\* one thread is done, a second is inside its engine call on the output the
\* first left, and a third waits for the lock
C24_Witness ==
    /\ family = "parallel_calls_to_graphblas"
    /\ \E t \in Threads, u \in Threads, v \in Threads :
        /\ pc[t].at = "done"
        /\ InEngineCall(u)
        /\ pc[u].output = result_matrix.data
        /\ Stored(pc[u].output) # {}
        /\ result_matrix.locked_by = u
        /\ pc[v].at = "ready"

\* what the apply of thread t, run alone from the state the collections and
\* the applier were constructed in, leaves in the thread's output
AloneOutput(t) ==
    Applied(constructed, pc[t].method, SharedOperand, matrices[t], previous[t]).product

====
